---------------------------- MODULE Spec2Model ----------------------------
(***************************************************************************)
(* Model of the deployment orchestrator of deploy-rs:                      *)
(*   src/src/cli.rs     run_deploy  (build pass, push pass, activation     *)
(*                      loop, batch rollback)                              *)
(*   src/src/deploy.rs  deploy_profile, confirm_profile, revoke,           *)
(*                      handle_sudo_stdin                                  *)
(*                                                                         *)
(* A batch is the list `parts` of work items 1..NumItems in resolver       *)
(* order.  The settings of an item are immutable inputs; each one is drawn *)
(* at the step of the code that first reads it and is recorded from then   *)
(* on.  SSH children are operating-system processes: they exit on their    *)
(* own (child_exit), and the orchestrator only observes the exit.          *)
(***************************************************************************)
EXTENDS Integers, Sequences, FiniteSets, TLC

\* Number of work items in `parts`.
NumItems == 2

Items == 1..NumItems

\* Number of work items of a batch whose activations all take the simple
\* path (BatchSpec).
NumBatch == 3

BatchItems == 1..NumBatch

\* Nesting depth of the objects in a decrypted sops document (below the
\* top-level object).
MaxDepth == 2

\* Largest number of `/`-separated segments in a sudo_secret key path.
MaxKeyLen == 3

\* Number of targets given on the command line (deploy_flakes).
NumTargets == 2

\* Largest length of a node's profilesOrder.
MaxOrder == 2

\* The four SSH children an item can have.
Kinds == {"activate", "wait", "confirm", "revoke"}

\* Option<bool> as it appears in merged_settings and cmd_overrides.
OptBool == {"None", "Some_true", "Some_false"}

\* Option<String> for sudo_secret, by presence only.
OptSecret == {"None", "Some"}

\* How a spawned child ends: exit code 0, or any other code (or a signal).
Outcomes == {"exit0", "exitN"}

VARIABLES
    dry_activate,      \* run_deploy argument
    boot,              \* run_deploy argument
    parts,             \* the Vec `parts`: the work items in resolver order
    rollback_succeeded, \* run_deploy argument, "unread" before cli.rs:715
    cmd_auto_rollback, \* cmd_overrides.auto_rollback (Option<bool>), "unread" before cli.rs:715
    merged_magic_rollback, \* merged_settings.magic_rollback (Option<bool>) as read at deploy.rs:379, held until ssh(activate) is spawned
    magic_rollback,    \* per item: local `magic_rollback` of deploy_profile, "unread" before
    auto_rollback,     \* per item: merged_settings.auto_rollback.unwrap_or(true) as read by the revoke loop
    sudo_stdin,        \* per item: interactive_sudo.unwrap_or(false) || sudo_secret.is_some()
    pc,                \* position of run_deploy
    idx,               \* index into `parts` of the running loop
    ridx,              \* index into `succeeded` of the revoke loop
    built,             \* items whose build_profile returned Ok, in order
    pushed,            \* items whose push_profile returned Ok, in order
    succeeded,         \* the Vec `succeeded`
    revoked,           \* items for which revoke() was called, in order
    result,            \* what run_deploy returned
    dpc,               \* position of deploy_profile / revoke for the current item
    path,              \* per item: branch taken at deploy.rs:415
    dp_result,         \* per item: what deploy_profile returned
    rv_result,         \* per item: what revoke returned
    child,             \* per item and kind: state of the SSH child
    stdin_writes,      \* per item and kind: number of password writes
    stdin,             \* per item and kind: `child.stdin` as handle_sudo_stdin found it
    stdin_handle,      \* whether a spawned child can have a stdin handle (set of booleans)
    merged_sudo,       \* merged_settings.sudo of the item in the parts loop (Option)
    merged_interactive_sudo, \* merged_settings.interactive_sudo (Option<bool>)
    merged_sudo_file,  \* merged_settings.sudo_file (Option)
    merged_sudo_secret, \* merged_settings.sudo_secret (Option of a key path)
    sudo_file_exists,  \* what try_exists(sudo_file) finds: "yes", "no", "io_err"; "n/a" without a file
    derived_sudo,      \* deploy_defs.sudo as returned by deploy_data.defs() (Option)
    deploy_defs_sudo,  \* deploy_defs.sudo (Option)
    deploy_defs_sudo_password, \* deploy_defs.sudo_password (Option)
    sops_m,            \* the map `m` parsed from the sops output (Option)
    using_flakes,      \* run: supports_flakes && !do_not_want_flakes (cli.rs:841), "unread" when not read
    deploy_flakes,     \* the selectors (node, profile) of the targets read so far, in command-line order
    data,              \* the descriptor the evaluator returns for the targets of the run, "unread" when not read
    tidx,              \* number of targets the running pass over deploy_flakes has finished
    to_deploy,         \* the work items collected so far by the map of cli.rs:446-542
    cmd_data,          \* the settings of the item the SSH commands are built from, "unread" when not read
    argv,              \* per kind: the arguments of the ssh Command of the item, <<>> before it is built
    interactive,       \* run_deploy argument, "unread" in runs that do not reach cli.rs:667
    answers,           \* the lines prompt_deployment has read from stdin, in order
    thread,            \* per item: the spawned activate task
    send_activate,     \* per item: oneshot channel carrying the activate error
    recv_activate,     \* per item: receiver of send_activate still alive
    send_activated,    \* per item: oneshot channel signalling the end of the task
    recv_activated,    \* per item: receiver of send_activated still alive
    c,                 \* per item: result of confirm_profile
    selected,          \* per item: branch on which the select completed
    wait_at_select,    \* per item: state of ssh(wait) when the select completed
    activate_at_wait_exit \* per item: state of ssh(activate) when ssh(wait) exited

vars == <<dry_activate, boot, parts, stdin_handle, merged_sudo,
          merged_interactive_sudo, merged_sudo_file, merged_sudo_secret,
          sudo_file_exists, derived_sudo, deploy_defs_sudo,
          deploy_defs_sudo_password, sops_m, using_flakes, deploy_flakes,
          data, tidx, to_deploy, cmd_data, argv, interactive, answers,
          rollback_succeeded, cmd_auto_rollback,
          merged_magic_rollback, magic_rollback, auto_rollback,
          sudo_stdin, pc, idx, ridx, built, pushed, succeeded, revoked,
          result, dpc, path, dp_result, rv_result, child, stdin_writes, stdin,
          thread, send_activate, recv_activate, send_activated,
          recv_activated, c, selected, wait_at_select, activate_at_wait_exit>>

merged == <<merged_sudo, merged_interactive_sudo, merged_sudo_file,
            merged_sudo_secret, sudo_file_exists, derived_sudo>>
resolve == <<merged, deploy_defs_sudo, deploy_defs_sudo_password, sops_m>>
resolver == <<using_flakes, deploy_flakes, data, tidx, to_deploy>>
commands == <<cmd_data, argv>>
prompt == <<interactive, answers>>
front == <<resolver, commands, prompt>>
inputs == <<dry_activate, boot, parts, stdin_handle, resolve, front>>
settings == <<merged_magic_rollback, magic_rollback, sudo_stdin>>
rollback_inputs == <<rollback_succeeded, cmd_auto_rollback, auto_rollback>>
batch == <<built, pushed, succeeded, revoked>>
revoke_state == <<ridx, revoked, rv_result>>
channels == <<send_activate, recv_activate, send_activated, recv_activated>>
events == <<selected, wait_at_select, activate_at_wait_exit>>

-----------------------------------------------------------------------------
(* Helpers modelling expressions of the code *)

\* Option<bool>::unwrap_or
unwrap_or(o, d) == IF o = "None" THEN d ELSE o = "Some_true"

\* deploy_data.node_name of an item: items 1 and 2 live on node 1, item 3
\* and 4 on node 2, ...
node_name(i) == (i + 1) \div 2

\* `interactive_sudo.unwrap_or(false) || sudo_secret.is_some()`
needs_sudo(interactive_sudo, sudo_secret) ==
    unwrap_or(interactive_sudo, FALSE) \/ sudo_secret # "None"

handle_sudo_stdin_ok(has_stdin) == "Ok"

\* handle_sudo_stdin: Ok after one write when the child has a stdin handle,
\* an io::Error otherwise.
handle_sudo_stdin(has_stdin) == IF has_stdin THEN "Ok" ELSE "Err"

\* Every ssh Command is built with .stdin(Stdio::piped()) (deploy.rs:281,
\* 409, 484, 593), so a child spawned by the program has a stdin handle.
stdin_piped == TRUE

use_simple_path_no_boot(magic, dry, bt) == ~magic \/ dry

\* deploy.rs:415  `if !magic_rollback || dry_activate || boot`
use_simple_path(magic, dry, bt) == ~magic \/ dry \/ bt

wait_branch_any(outcome) ==
    IF outcome = "io_err" THEN "SSHWait" ELSE "continue"

\* deploy.rs:531-534: the wait branch of the select
wait_branch(outcome) ==
    CASE outcome = "io_err" -> "SSHWait"
      [] outcome = "exit0"  -> "continue"
      [] OTHER              -> "SSHWaitExit"

maybe_err_none(outcome) ==
    IF outcome = "io_err" THEN "SSHActivate" ELSE "None"

\* deploy.rs:496-502: maybe_err of the activate task
maybe_err(outcome) ==
    CASE outcome = "io_err" -> "SSHActivate"
      [] outcome = "exit0"  -> "None"
      [] OTHER              -> "SSHActivateExit"

\* deploy.rs:433-441: exit handling on the simple path
simple_exit(outcome) ==
    CASE outcome = "io_err" -> "SSHActivate"
      [] outcome = "exit0"  -> "Ok"
      [] OTHER              -> "SSHActivateExit"

confirm_exit_any(outcome) ==
    IF outcome = "io_err" THEN "SSHConfirm" ELSE "Ok"

\* deploy.rs:316-328: exit handling of confirm_profile
confirm_exit(outcome) ==
    CASE outcome = "io_err" -> "SSHConfirm"
      [] outcome = "exit0"  -> "Ok"
      [] OTHER              -> "SSHConfirmExit"

revoke_exit_ok(outcome) == "Ok"

\* deploy.rs:616-624: exit handling of revoke
revoke_exit(outcome) ==
    CASE outcome = "io_err" -> "SSHRevoke"
      [] outcome = "exit0"  -> "Ok"
      [] OTHER              -> "SSHRevokeExit"

\* deploy_data.get_profile_info(): run_deploy already called defs() for the
\* item (cli.rs:562), which fails on the same missing profile user, so the
\* items that reach deploy_profile have a profile info.
get_profile_info(i) == "Ok"

Exited(i, k) == child[i][k] \in Outcomes

\* What `.wait().await` / `.wait_with_output().await` yields once the child
\* has exited.  The call itself is taken to succeed, so the io::Error arm
\* ("io_err") of the exit handling below is not exercised.
WaitResults(i, k) == {child[i][k]}

Spawned(i, k) == child[i][k] \in Outcomes \cup {"running"}

NoChild == [k \in Kinds |-> "none"]

after_build_skip_push == "deploy"

\* cli.rs:688-700: the pass that follows the build pass
after_build == "push"

succeeded_push_front(s, i) == <<i>> \o s

\* cli.rs:731  succeeded.push(...)
succeeded_push(s, i) == Append(s, i)

deploy_failed_never(res) == FALSE

\* cli.rs:709  `if let Err(e) = deploy_profile(...)`
deploy_failed(res) == res # "Ok"

do_rollback_any_cmd(rs, cmd) == rs

\* cli.rs:715  `rollback_succeeded && cmd_overrides.auto_rollback.unwrap_or(true)`
do_rollback(rs, cmd) == rs /\ unwrap_or(cmd, TRUE)

rollback_targets_parts(s, p) == p

\* cli.rs:720  `for (deploy_data, deploy_defs) in &succeeded`
rollback_targets(s, p) == s

revoke_failed_never(res) == FALSE

\* cli.rs:722-724  `revoke(...).await.map_err(...)?`
revoke_failed(res) == res # "Ok"

\* The settings merge of make_deploy_data (called at cli.rs:551): a CLI
\* override, when present, wins over the profile/node/generic value.
merge_override(cmd, lower) == IF cmd # "None" THEN cmd ELSE lower

Returned(kind, node, cause) == [kind |-> kind, node |-> node, cause |-> cause]

-----------------------------------------------------------------------------
(* Helpers of the parts loop, cli.rs:550-665 *)

\* Option<T> for the settings of the parts loop: None, or Some(x).
None == <<>>

Some(x) == <<x>>

is_some(o) == o # None

unwrap(o) == o[1]

\* A key path and the name of a JSON member are strings, modelled as
\* sequences of characters; member names have one character.
Names == {<<"a">>, <<"b">>}

\* The segments a key path is written from.
Segments == Names

RECURSIVE join(_)
\* The key path whose segments are segs, as a string.
join(segs) ==
    IF Len(segs) = 1
    THEN segs[1]
    ELSE segs[1] \o <<"/">> \o join(Tail(segs))

\* The lists of at most MaxKeyLen segments.
SegLists == UNION {[1..n -> Segments] : n \in 1..MaxKeyLen}

\* The values merged_settings.sudo_secret takes when it is set.
KeyPaths == {join(segs) : segs \in SegLists}

RECURSIVE split(_)
\* cli.rs:632  key.split('/'): the pieces between the slashes, in order.
split(str) ==
    IF \A n \in 1..Len(str) : str[n] # "/"
    THEN <<str>>
    ELSE LET n == CHOOSE k \in 1..Len(str) :
                      str[k] = "/" /\ \A l \in 1..(k - 1) : str[l] # "/"
         IN <<SubSeq(str, 1, n - 1)>> \o split(SubSeq(str, n + 1, Len(str)))

\* serde_json::Value
JString(x) == [t |-> "String", v |-> x]

JNumber(x) == [t |-> "Number", v |-> x]

JBool(x) == [t |-> "Bool", v |-> x]

JNull == [t |-> "Null", v |-> ""]

JArray == [t |-> "Array", v |-> ""]

JObject(x) == [t |-> "Object", v |-> x]

\* The values of member "a" and of member "b" that are not objects.
LeavesA == {JString("pw"), JNumber(7), JBool(TRUE), JNull, JArray}

LeavesB == {JString("x")}

\* serde_json::Map with member "a" (when a is Some) and member "b" (when b
\* is Some).
mk_map(a, b) ==
    [n \in {x \in Names : (x = <<"a">> /\ is_some(a)) \/ (x = <<"b">> /\ is_some(b))}
        |-> IF n = <<"a">> THEN unwrap(a) ELSE unwrap(b)]

RECURSIVE Maps(_)
\* The JSON objects with objects nested d deep under member "a".
Maps(d) ==
    LET A == LeavesA \cup (IF d = 0 THEN {} ELSE {JObject(x) : x \in Maps(d - 1)})
    IN {mk_map(a, b) : a \in {None} \cup {Some(x) : x \in A},
                       b \in {None} \cup {Some(x) : x \in LeavesB}}

\* What serde_json::from_str yields at cli.rs:626 when it succeeds.
Docs == Maps(MaxDepth)

bool_to_string_upper(b) == IF b THEN "TRUE" ELSE "FALSE"

\* bool::to_string
bool_to_string(b) == IF b THEN "true" ELSE "false"

\* serde_json::Number::to_string, for the integers of the documents
number_to_string(n) == ToString(n)

WalkResult(kind, pw) == [kind |-> kind, sudo_password |-> pw]

RECURSIVE sops_walk(_, _, _)
\* cli.rs:632-660: the loop over the segments; m is the current map and
\* sudo_password the local of that name.
sops_walk(m, segs, sudo_password) ==
    IF segs = <<>>
    THEN WalkResult("Ok", sudo_password)
    ELSE LET i == Head(segs) IN
         IF i \notin DOMAIN m
         THEN WalkResult("SopsKeyNotFound", "")
         ELSE LET v == m[i] IN
              CASE v.t = "String" -> sops_walk(m, Tail(segs), v.v)
                [] v.t = "Bool"   -> sops_walk(m, Tail(segs), bool_to_string(v.v))
                [] v.t = "Number" -> sops_walk(m, Tail(segs), number_to_string(v.v))
                [] v.t = "Object" -> sops_walk(v.v, Tail(segs), sudo_password)
                [] OTHER          -> WalkResult("SerdeUnexpectedType", "")

sudo_is_custom_enabled(sudo, interactive_sudo, sudo_secret) ==
    is_some(sudo) /\ (unwrap_or(interactive_sudo, FALSE) \/ is_some(sudo_secret))

\* cli.rs:564-566
sudo_is_custom(sudo, interactive_sudo, sudo_secret) ==
    is_some(sudo) /\ (interactive_sudo # "None" \/ is_some(sudo_secret))

\* cli.rs:564-574: deploy_defs.sudo after the block
sudo_prefix(custom, original) ==
    IF custom
    THEN original
    ELSE Some((IF is_some(original) THEN unwrap(original) ELSE "sudo") \o " -S -p \"\"")

\* merged_settings.sudo: unset, or a custom command
SudoCommands == {None, Some("doas -u")}

\* deploy_defs.sudo as defs() derives it from the users and the sudo setting
DerivedSudo == {None, Some("sudo -u root"), Some("doas -u root")}

\* cli.rs:562  what deploy_data.defs() returns: an error, or the DeployDefs
DefsResults ==
    {[ok |-> FALSE, sudo |-> None]} \cup {[ok |-> TRUE, sudo |-> x] : x \in DerivedSudo}

\* merged_settings.sudo_file
SudoFiles == {None, Some("secrets.yaml")}

\* rpassword::prompt_password(...).unwrap_or("")
PromptResults == {"", "hunter2"}

\* The ways cli.rs:609-627 fails: running sops, decoding its output as
\* UTF-8, parsing it as a JSON object.
DecryptErrors == {"SopsFailedDecryption", "SopsCannotConvert", "SerdeDeserialize"}

-----------------------------------------------------------------------------
\* What holds of a run of run_deploy over the work items I as long as
\* nothing was built or spawned.
Fresh(I) ==
    /\ rollback_succeeded = "unread"
    /\ cmd_auto_rollback = "unread"
    /\ merged_magic_rollback = "unread"
    /\ magic_rollback = [i \in I |-> "unread"]
    /\ auto_rollback = [i \in I |-> "unread"]
    /\ sudo_stdin = [i \in I |-> "unread"]
    /\ idx = 1
    /\ ridx = 1
    /\ built = <<>>
    /\ pushed = <<>>
    /\ succeeded = <<>>
    /\ revoked = <<>>
    /\ result = Returned("none", 0, "none")
    /\ path = [i \in I |-> "none"]
    /\ dp_result = [i \in I |-> "none"]
    /\ rv_result = [i \in I |-> "none"]
    /\ child = [i \in I |-> NoChild]
    /\ stdin_writes = [i \in I |-> [k \in Kinds |-> 0]]
    /\ stdin = [i \in I |-> [k \in Kinds |-> "none"]]
    /\ thread = [i \in I |-> "none"]
    /\ send_activate = [i \in I |-> "none"]
    /\ recv_activate = [i \in I |-> FALSE]
    /\ send_activated = [i \in I |-> "none"]
    /\ recv_activated = [i \in I |-> FALSE]
    /\ c = [i \in I |-> "none"]
    /\ selected = [i \in I |-> "none"]
    /\ wait_at_select = [i \in I |-> "none"]
    /\ activate_at_wait_exit = [i \in I |-> "none"]

\* No item is in the body of the parts loop (cli.rs:550-665): its locals do
\* not exist.
NoLocals ==
    /\ merged_sudo = None
    /\ merged_interactive_sudo = "None"
    /\ merged_sudo_file = None
    /\ merged_sudo_secret = None
    /\ sudo_file_exists = "n/a"
    /\ derived_sudo = None
    /\ deploy_defs_sudo = None
    /\ deploy_defs_sudo_password = None
    /\ sops_m = None

\* The resolution of the targets (cli.rs:446-542) is not part of the run
\* that is followed.
Resolved ==
    /\ using_flakes = "unread"
    /\ deploy_flakes = <<>>
    /\ data = "unread"
    /\ tidx = 0
    /\ to_deploy = <<>>

\* No ssh Command of the run is followed argument by argument.
NoCommands ==
    /\ cmd_data = "unread"
    /\ argv = [k \in Kinds |-> <<>>]

\* The question of cli.rs:667-671 is not followed.
NoPrompt ==
    /\ interactive = "unread"
    /\ answers = <<>>

\* The state in which run_deploy reaches the build pass (cli.rs:688) with
\* the work items I in `parts`: nothing built, nothing spawned.
Start(I) ==
    /\ Fresh(I)
    /\ NoLocals
    /\ Resolved
    /\ NoCommands
    /\ NoPrompt
    /\ parts = [i \in I |-> i]
    /\ pc = "build"
    /\ dpc = "idle"

Init ==
    /\ dry_activate \in BOOLEAN
    /\ boot \in BOOLEAN
    /\ stdin_handle = {stdin_piped}
    /\ Start(Items)

\* As Init, for children that may or may not have a stdin handle: the
\* inputs of handle_sudo_stdin (deploy.rs:246) beyond those the four piped
\* Commands produce.
SudoInit ==
    /\ dry_activate \in BOOLEAN
    /\ boot \in BOOLEAN
    /\ stdin_handle = BOOLEAN
    /\ Start(Items)

\* run_deploy at the head of the parts loop (cli.rs:550).  dry_activate and
\* boot are not read before cli.rs:709.
PartsInit ==
    /\ dry_activate = "unread"
    /\ boot = "unread"
    /\ stdin_handle = {stdin_piped}
    /\ Fresh(Items)
    /\ NoLocals
    /\ Resolved
    /\ NoCommands
    /\ NoPrompt
    /\ parts = <<>>
    /\ pc = "parts"
    /\ dpc = "make_deploy_data"

\* A batch run with --dry-activate or --boot: every deploy_profile call
\* takes the branch of deploy.rs:416-449.
BatchInit ==
    /\ dry_activate \in BOOLEAN
    /\ boot \in BOOLEAN
    /\ dry_activate \/ boot
    /\ stdin_handle = {stdin_piped}
    /\ Start(BatchItems)

-----------------------------------------------------------------------------
(* run_deploy: build pass and push pass, cli.rs:688-700 *)

\* One iteration of the build loop; build_profile is an external
\* collaborator that succeeds or fails.
build_profile ==
    /\ pc = "build"
    /\ \E ok \in BOOLEAN :
         IF ok
         THEN /\ built' = Append(built, idx)
              /\ IF idx = Len(parts)
                 THEN pc' = after_build /\ idx' = 1
                 ELSE pc' = pc /\ idx' = idx + 1
              /\ UNCHANGED result
         ELSE /\ result' = Returned("BuildProfile", node_name(idx), "PushProfileError")
              /\ pc' = "returned"
              /\ UNCHANGED <<built, idx>>
    /\ UNCHANGED <<inputs, settings, rollback_inputs, revoke_state, pushed,
                   succeeded, dpc, path, dp_result, child, stdin_writes, stdin,
                   thread, channels, c, events>>

\* One iteration of the push loop.
push_profile ==
    /\ pc = "push"
    /\ \E ok \in BOOLEAN :
         IF ok
         THEN /\ pushed' = Append(pushed, idx)
              /\ IF idx = Len(parts)
                 THEN pc' = "deploy" /\ idx' = 1
                 ELSE pc' = pc /\ idx' = idx + 1
              /\ UNCHANGED result
         ELSE /\ result' = Returned("PushProfile", node_name(idx), "PushProfileError")
              /\ pc' = "returned"
              /\ UNCHANGED <<pushed, idx>>
    /\ UNCHANGED <<inputs, settings, rollback_inputs, revoke_state, built,
                   succeeded, dpc, path, dp_result, child, stdin_writes, stdin,
                   thread, channels, c, events>>

-----------------------------------------------------------------------------
(* deploy_profile, deploy.rs:357-554, for the item parts[idx] *)

\* What every `return` (and `?`) of deploy_profile does: the result goes to
\* the caller and the locals recv_activate, recv_activated and the
\* JoinHandle are dropped.  Dropping a tokio Child or a JoinHandle neither
\* kills the process nor cancels the task.
dp_return(res) ==
    /\ dp_result' = [dp_result EXCEPT ![idx] = res]
    /\ recv_activate' = [recv_activate EXCEPT ![idx] = FALSE]
    /\ recv_activated' = [recv_activated EXCEPT ![idx] = FALSE]
    /\ dpc' = "done"

\* Position after the optional password write that follows a spawn.
after_spawn(sudo_pos, next_pos) ==
    IF sudo_stdin[idx] THEN sudo_pos ELSE next_pos

\* deploy.rs:363-415: read the settings, build the command, choose the path.
deploy_enter ==
    /\ pc = "deploy"
    /\ dpc = "idle"
    /\ \E m \in OptBool, is \in OptBool, ss \in OptSecret :
         /\ magic_rollback' = [magic_rollback EXCEPT ![idx] = unwrap_or(m, TRUE)]
         /\ sudo_stdin' = [sudo_stdin EXCEPT ![idx] = needs_sudo(is, ss)]
         /\ IF get_profile_info(idx) # "Ok"
            THEN /\ dp_return("InvalidDeployDataDefs")
                 /\ UNCHANGED <<path, merged_magic_rollback>>
            ELSE /\ merged_magic_rollback' = m
                 /\ path' = [path EXCEPT ![idx] =
                        IF use_simple_path(unwrap_or(m, TRUE), dry_activate, boot)
                        THEN "SIMPLE" ELSE "MAGIC"]
                 /\ dpc' = "spawn_activate"
                 /\ UNCHANGED <<dp_result, recv_activate, recv_activated>>
    /\ UNCHANGED <<inputs, rollback_inputs, revoke_state, pc, idx, built,
                   pushed, succeeded, result, child, stdin_writes, stdin, thread,
                   send_activate, send_activated, c, events>>

\* deploy.rs:416-419 (simple) and 462-465 (magic): spawn ssh(activate).
spawn_activate ==
    /\ pc = "deploy"
    /\ dpc = "spawn_activate"
    /\ \E ok \in BOOLEAN :
         IF ok
         THEN /\ child' = [child EXCEPT ![idx]["activate"] = "running"]
              /\ dpc' = after_spawn("sudo_activate",
                            IF path[idx] = "SIMPLE" THEN "wait_activate"
                                                    ELSE "spawn_thread")
              /\ UNCHANGED <<dp_result, recv_activate, recv_activated>>
         ELSE /\ child' = [child EXCEPT ![idx]["activate"] = "spawn_err"]
              /\ dp_return("SSHSpawnActivate")
    /\ merged_magic_rollback' = "unread"
    /\ UNCHANGED <<inputs, magic_rollback, sudo_stdin, rollback_inputs,
                   revoke_state, pc, idx,
                   built, pushed, succeeded, result, path, stdin_writes, stdin,
                   thread, send_activate, send_activated, c, events>>

\* deploy.rs:421-431 and 467-477: pipe the password to ssh(activate).
sudo_activate ==
    /\ pc = "deploy"
    /\ dpc = "sudo_activate"
    /\ \E h \in stdin_handle :
            /\ stdin' = [stdin EXCEPT ![idx]["activate"] = IF h THEN "Some" ELSE "None"]
            /\ IF handle_sudo_stdin(h) = "Ok"
               THEN /\ stdin_writes' = [stdin_writes EXCEPT ![idx]["activate"] = @ + 1]
                    /\ dpc' = IF path[idx] = "SIMPLE" THEN "wait_activate"
                                                      ELSE "spawn_thread"
                    /\ UNCHANGED <<dp_result, recv_activate, recv_activated>>
               ELSE /\ dp_return("SSHActivatePipe")
                    /\ UNCHANGED stdin_writes
    /\ UNCHANGED <<inputs, settings, rollback_inputs, revoke_state, pc, idx,
                   built, pushed, succeeded, result, path, child, thread,
                   send_activate, send_activated, c, events>>

\* deploy.rs:433-449: the simple path waits for ssh(activate) and returns.
wait_activate ==
    /\ pc = "deploy"
    /\ dpc = "wait_activate"
    /\ Exited(idx, "activate")
    /\ \E o \in WaitResults(idx, "activate") : dp_return(simple_exit(o))
    /\ UNCHANGED <<inputs, settings, rollback_inputs, revoke_state, pc, idx,
                   built, pushed, succeeded, result, path, child,
                   stdin_writes, stdin, thread, send_activate, send_activated, c,
                   events>>

\* deploy.rs:490-509: create the two oneshot channels and spawn the task
\* that owns ssh_activate_child.
spawn_thread ==
    /\ pc = "deploy"
    /\ dpc = "spawn_thread"
    /\ send_activate' = [send_activate EXCEPT ![idx] = "open"]
    /\ recv_activate' = [recv_activate EXCEPT ![idx] = TRUE]
    /\ send_activated' = [send_activated EXCEPT ![idx] = "open"]
    /\ recv_activated' = [recv_activated EXCEPT ![idx] = TRUE]
    /\ thread' = [thread EXCEPT ![idx] = "wait_with_output"]
    /\ dpc' = "spawn_wait"
    /\ UNCHANGED <<inputs, settings, rollback_inputs, revoke_state, pc, idx,
                   built, pushed, succeeded, result, path, dp_result, child,
                   stdin_writes, stdin, c, events>>

\* deploy.rs:511-514: spawn ssh(wait).
spawn_wait ==
    /\ pc = "deploy"
    /\ dpc = "spawn_wait"
    /\ \E ok \in BOOLEAN :
         IF ok
         THEN /\ child' = [child EXCEPT ![idx]["wait"] = "running"]
              /\ dpc' = after_spawn("sudo_wait", "select")
              /\ UNCHANGED <<dp_result, recv_activate, recv_activated>>
         ELSE /\ child' = [child EXCEPT ![idx]["wait"] = "spawn_err"]
              /\ dp_return("SSHWait")
    /\ UNCHANGED <<inputs, settings, rollback_inputs, revoke_state, pc, idx,
                   built, pushed, succeeded, result, path, stdin_writes, stdin,
                   thread, send_activate, send_activated, c, events>>

\* deploy.rs:516-526: pipe the password to ssh(wait).
sudo_wait ==
    /\ pc = "deploy"
    /\ dpc = "sudo_wait"
    /\ \E h \in stdin_handle :
            /\ stdin' = [stdin EXCEPT ![idx]["wait"] = IF h THEN "Some" ELSE "None"]
            /\ IF handle_sudo_stdin(h) = "Ok"
               THEN /\ stdin_writes' = [stdin_writes EXCEPT ![idx]["wait"] = @ + 1]
                    /\ dpc' = "select"
                    /\ UNCHANGED <<dp_result, recv_activate, recv_activated>>
               ELSE /\ dp_return("SSHActivatePipe")
                    /\ UNCHANGED stdin_writes
    /\ UNCHANGED <<inputs, settings, rollback_inputs, revoke_state, pc, idx,
                   built, pushed, succeeded, result, path, child, thread,
                   send_activate, send_activated, c, events>>

\* Record on which branch the select completed and whether ssh(wait) had
\* exited by then.
select_done(branch) ==
    /\ selected' = [selected EXCEPT ![idx] = branch]
    /\ wait_at_select' = [wait_at_select EXCEPT ![idx] = child[idx]["wait"]]

\* deploy.rs:528-535: the select completes on its wait branch.  The
\* recv_activate future was moved into the select and is dropped with it.
select_wait ==
    /\ pc = "deploy"
    /\ dpc = "select"
    /\ Exited(idx, "wait")
    /\ select_done("wait")
    /\ \E o \in WaitResults(idx, "wait") :
         IF wait_branch(o) = "continue"
         THEN /\ dpc' = "confirm_spawn"
              /\ recv_activate' = [recv_activate EXCEPT ![idx] = FALSE]
              /\ UNCHANGED <<dp_result, recv_activated>>
         ELSE dp_return(wait_branch(o))
    /\ UNCHANGED <<inputs, settings, rollback_inputs, revoke_state, pc, idx,
                   built, pushed, succeeded, result, path, child,
                   stdin_writes, stdin, thread, send_activate, send_activated, c,
                   activate_at_wait_exit>>

\* deploy.rs:536-539: the select completes on recv_activate.  The receive
\* yields the error the task sent, or RecvError when the task dropped
\* send_activate without sending; `x.unwrap()` panics on the latter and the
\* panic unwinds out of run_deploy.
select_activate ==
    /\ pc = "deploy"
    /\ dpc = "select"
    /\ send_activate[idx] \notin {"none", "open"}
    /\ select_done("recv_activate")
    /\ IF send_activate[idx] = "closed"
       THEN /\ dp_return("panic")
            /\ pc' = "panicked"
            /\ result' = Returned("panic", node_name(idx), "RecvError")
       ELSE /\ dp_return(send_activate[idx])
            /\ UNCHANGED <<pc, result>>
    /\ UNCHANGED <<inputs, settings, rollback_inputs, revoke_state, idx,
                   built, pushed, succeeded, path, child, stdin_writes, stdin,
                   thread, send_activate, send_activated, c,
                   activate_at_wait_exit>>

-----------------------------------------------------------------------------
(* confirm_profile, deploy.rs:272-329, called at deploy.rs:544 *)

\* deploy.rs:278-302: spawn ssh(confirm) running `[sudo] rm <lock_path>`.
confirm_spawn ==
    /\ pc = "deploy"
    /\ dpc = "confirm_spawn"
    /\ \E ok \in BOOLEAN :
         IF ok
         THEN /\ child' = [child EXCEPT ![idx]["confirm"] = "running"]
              /\ dpc' = after_spawn("sudo_confirm", "confirm_wait")
              /\ UNCHANGED c
         ELSE /\ child' = [child EXCEPT ![idx]["confirm"] = "spawn_err"]
              /\ c' = [c EXCEPT ![idx] = "SSHConfirm"]
              /\ dpc' = "recv_activated"
    /\ UNCHANGED <<inputs, settings, rollback_inputs, revoke_state, pc, idx,
                   built, pushed, succeeded, result, path, dp_result,
                   stdin_writes, stdin, thread, channels, events>>

\* deploy.rs:304-314: pipe the password to ssh(confirm).
sudo_confirm ==
    /\ pc = "deploy"
    /\ dpc = "sudo_confirm"
    /\ \E h \in stdin_handle :
            /\ stdin' = [stdin EXCEPT ![idx]["confirm"] = IF h THEN "Some" ELSE "None"]
            /\ IF handle_sudo_stdin(h) = "Ok"
               THEN /\ stdin_writes' = [stdin_writes EXCEPT ![idx]["confirm"] = @ + 1]
                    /\ dpc' = "confirm_wait"
                    /\ UNCHANGED c
               ELSE /\ c' = [c EXCEPT ![idx] = "SSHConfirm"]
                    /\ dpc' = "recv_activated"
                    /\ UNCHANGED stdin_writes
    /\ UNCHANGED <<inputs, settings, rollback_inputs, revoke_state, pc, idx,
                   built, pushed, succeeded, result, path, dp_result, child,
                   thread, channels, events>>

\* deploy.rs:316-328: wait for ssh(confirm); the result is kept in `c`.
confirm_wait ==
    /\ pc = "deploy"
    /\ dpc = "confirm_wait"
    /\ Exited(idx, "confirm")
    /\ \E o \in WaitResults(idx, "confirm") :
         c' = [c EXCEPT ![idx] = confirm_exit(o)]
    /\ dpc' = "recv_activated"
    /\ UNCHANGED <<inputs, settings, rollback_inputs, revoke_state, pc, idx,
                   built, pushed, succeeded, result, path, dp_result, child,
                   stdin_writes, stdin, thread, channels, events>>

\* deploy.rs:545-546: `recv_activated.await.map_err(SSHActivateTimeout)?`
\* and then `c?`.
await_activated ==
    /\ pc = "deploy"
    /\ dpc = "recv_activated"
    /\ send_activated[idx] \in {"sent", "closed"}
    /\ IF send_activated[idx] = "closed"
       THEN dp_return("SSHActivateTimeout")
       ELSE IF c[idx] # "Ok"
            THEN dp_return("Confirm")
            ELSE /\ dpc' = "join"
                 /\ UNCHANGED <<dp_result, recv_activate, recv_activated>>
    /\ UNCHANGED <<inputs, settings, rollback_inputs, revoke_state, pc, idx,
                   built, pushed, succeeded, result, path, child,
                   stdin_writes, stdin, thread, send_activate, send_activated, c,
                   events>>

\* deploy.rs:548-553: join the task, then Ok(()).
join_thread ==
    /\ pc = "deploy"
    /\ dpc = "join"
    /\ thread[idx] \in {"finished", "panicked"}
    /\ dp_return(IF thread[idx] = "finished" THEN "Ok" ELSE "SSHActivate")
    /\ UNCHANGED <<inputs, settings, rollback_inputs, revoke_state, pc, idx,
                   built, pushed, succeeded, result, path, child,
                   stdin_writes, stdin, thread, send_activate, send_activated, c,
                   events>>

-----------------------------------------------------------------------------
(* The task spawned at deploy.rs:493-509.  It runs on the tokio runtime  *)
(* concurrently with deploy_profile and, once detached, with the rest of *)
(* run_deploy, until the program ends.                                   *)

Running == pc \notin {"returned", "panicked"}

\* deploy.rs:494-506: the child has exited; compute maybe_err and send it.
\* Sending to a dropped receiver returns Err, and the unwrap panics; the
\* unwinding drops send_activated unsent.
thread_wait_with_output(i) ==
    /\ Running
    /\ thread[i] = "wait_with_output"
    /\ Exited(i, "activate")
    /\ \E o \in WaitResults(i, "activate") :
         IF maybe_err(o) = "None"
         THEN /\ thread' = [thread EXCEPT ![i] = "send_activated"]
              /\ UNCHANGED <<send_activate, send_activated>>
         ELSE IF recv_activate[i]
              THEN /\ send_activate' = [send_activate EXCEPT ![i] = maybe_err(o)]
                   /\ thread' = [thread EXCEPT ![i] = "send_activated"]
                   /\ UNCHANGED send_activated
              ELSE /\ thread' = [thread EXCEPT ![i] = "panicked"]
                   /\ send_activate' = [send_activate EXCEPT ![i] = "closed"]
                   /\ send_activated' = [send_activated EXCEPT ![i] = "closed"]
    /\ UNCHANGED <<inputs, settings, rollback_inputs, revoke_state, pc, idx,
                   built, pushed, succeeded, result, dpc, path, dp_result,
                   child, stdin_writes, stdin, recv_activate, recv_activated, c,
                   events>>

\* deploy.rs:508: `send_activated.send(()).unwrap()`.
thread_send_activated(i) ==
    /\ Running
    /\ thread[i] = "send_activated"
    /\ IF recv_activated[i]
       THEN /\ send_activated' = [send_activated EXCEPT ![i] = "sent"]
            /\ thread' = [thread EXCEPT ![i] = "end"]
            /\ UNCHANGED send_activate
       ELSE /\ thread' = [thread EXCEPT ![i] = "panicked"]
            /\ send_activated' = [send_activated EXCEPT ![i] = "closed"]
            /\ send_activate' = [send_activate EXCEPT ![i] =
                                    IF @ = "open" THEN "closed" ELSE @]
    /\ UNCHANGED <<inputs, settings, rollback_inputs, revoke_state, pc, idx,
                   built, pushed, succeeded, result, dpc, path, dp_result,
                   child, stdin_writes, stdin, recv_activate, recv_activated, c,
                   events>>

\* deploy.rs:509: the async block ends; a send_activate that was not used
\* is dropped, which closes the channel, and the task completes.
thread_end(i) ==
    /\ Running
    /\ thread[i] = "end"
    /\ send_activate' = [send_activate EXCEPT ![i] =
                            IF @ = "open" THEN "closed" ELSE @]
    /\ thread' = [thread EXCEPT ![i] = "finished"]
    /\ UNCHANGED <<inputs, settings, rollback_inputs, revoke_state, pc, idx,
                   built, pushed, succeeded, result, dpc, path, dp_result,
                   child, stdin_writes, stdin, recv_activate, send_activated,
                   recv_activated, c, selected, wait_at_select, activate_at_wait_exit>>

-----------------------------------------------------------------------------
(* run_deploy: the activation loop and the batch rollback, cli.rs:702-734 *)

\* cli.rs:709-731: deploy_profile has returned.  Ok: push to succeeded and
\* go on with the next item, or return Ok after the last.  Err: either
\* start revoking or return DeployProfile.
after_deploy ==
    /\ pc = "deploy"
    /\ dpc = "done"
    /\ IF deploy_failed(dp_result[idx])
       THEN /\ \E rs \in BOOLEAN, cmd \in OptBool :
                 /\ rollback_succeeded' = rs
                 /\ cmd_auto_rollback' = cmd
                 /\ IF do_rollback(rs, cmd)
                    THEN /\ pc' = "revoke"
                         /\ dpc' = "idle"
                         /\ ridx' = 1
                         /\ UNCHANGED result
                    ELSE /\ pc' = "returned"
                         /\ result' = Returned("DeployProfile", node_name(idx),
                                               dp_result[idx])
                         /\ UNCHANGED <<dpc, ridx>>
            /\ UNCHANGED <<succeeded, idx>>
       ELSE /\ succeeded' = succeeded_push(succeeded, idx)
            /\ IF idx = Len(parts)
               THEN /\ pc' = "returned"
                    /\ result' = Returned("Ok", 0, "none")
                    /\ UNCHANGED <<idx, dpc>>
               ELSE /\ idx' = idx + 1
                    /\ dpc' = "idle"
                    /\ UNCHANGED <<pc, result>>
            /\ UNCHANGED <<rollback_succeeded, cmd_auto_rollback, ridx>>
    /\ UNCHANGED <<inputs, settings, auto_rollback, built, pushed, revoked,
                   rv_result, path, dp_result, child, stdin_writes, stdin, thread,
                   channels, c, events>>

\* cli.rs:720-727: head of the revoke loop.  After the last succeeded item
\* return Rollback; otherwise read the item's auto_rollback and either call
\* revoke or skip the item.
revoke_next ==
    /\ pc = "revoke"
    /\ dpc = "idle"
    /\ IF ridx > Len(rollback_targets(succeeded, parts))
       THEN /\ pc' = "returned"
            /\ result' = Returned("Rollback", node_name(idx), "none")
            /\ UNCHANGED <<auto_rollback, revoked, ridx, dpc>>
       ELSE \E lower \in OptBool :
              LET j == rollback_targets(succeeded, parts)[ridx]
                  a == unwrap_or(merge_override(cmd_auto_rollback, lower), TRUE)
              IN /\ auto_rollback' = [auto_rollback EXCEPT ![j] = a]
                 /\ IF a
                    THEN /\ revoked' = Append(revoked, j)
                         /\ dpc' = "spawn_revoke"
                         /\ UNCHANGED ridx
                    ELSE /\ ridx' = ridx + 1
                         /\ UNCHANGED <<revoked, dpc>>
                 /\ UNCHANGED <<pc, result>>
    /\ UNCHANGED <<inputs, settings, rollback_succeeded, cmd_auto_rollback,
                   rv_result, idx, built, pushed, succeeded, path, dp_result,
                   child, stdin_writes, stdin, thread, channels, c, events>>

\* What every return of revoke() does at cli.rs:722-724: Ok goes on with
\* the next succeeded item, Err returns RevokeProfile.
rv_return(j, res) ==
    /\ rv_result' = [rv_result EXCEPT ![j] = res]
    /\ IF revoke_failed(res)
       THEN /\ pc' = "returned"
            /\ result' = Returned("RevokeProfile", node_name(j), res)
            /\ dpc' = "done"
            /\ UNCHANGED ridx
       ELSE /\ ridx' = ridx + 1
            /\ dpc' = "idle"
            /\ UNCHANGED <<pc, result>>

\* deploy.rs:573-602: build the revoke command and spawn ssh(revoke).
spawn_revoke ==
    /\ pc = "revoke"
    /\ dpc = "spawn_revoke"
    /\ LET j == rollback_targets(succeeded, parts)[ridx] IN
       IF get_profile_info(j) # "Ok"
       THEN /\ rv_return(j, "InvalidDeployDataDefs")
            /\ UNCHANGED child
       ELSE \E ok \in BOOLEAN :
              IF ok
              THEN /\ child' = [child EXCEPT ![j]["revoke"] = "running"]
                   /\ dpc' = IF sudo_stdin[j] THEN "sudo_revoke" ELSE "wait_revoke"
                   /\ UNCHANGED <<rv_result, ridx, pc, result>>
              ELSE /\ child' = [child EXCEPT ![j]["revoke"] = "spawn_err"]
                   /\ rv_return(j, "SSHSpawnRevoke")
    /\ UNCHANGED <<inputs, settings, rollback_inputs, revoked, idx, built,
                   pushed, succeeded, path, dp_result, stdin_writes, stdin, thread,
                   channels, c, events>>

\* deploy.rs:604-614: pipe the password to ssh(revoke).
sudo_revoke ==
    /\ pc = "revoke"
    /\ dpc = "sudo_revoke"
    /\ LET j == rollback_targets(succeeded, parts)[ridx] IN
       \E h \in stdin_handle :
            /\ stdin' = [stdin EXCEPT ![j]["revoke"] = IF h THEN "Some" ELSE "None"]
            /\ IF handle_sudo_stdin(h) = "Ok"
               THEN /\ stdin_writes' = [stdin_writes EXCEPT ![j]["revoke"] = @ + 1]
                    /\ dpc' = "wait_revoke"
                    /\ UNCHANGED <<rv_result, ridx, pc, result>>
               ELSE /\ rv_return(j, "SSHRevoke")
                    /\ UNCHANGED stdin_writes
    /\ UNCHANGED <<inputs, settings, rollback_inputs, revoked, idx, built,
                   pushed, succeeded, path, dp_result, child, thread,
                   channels, c, events>>

\* deploy.rs:616-624: wait for ssh(revoke).
wait_revoke ==
    /\ pc = "revoke"
    /\ dpc = "wait_revoke"
    /\ LET j == rollback_targets(succeeded, parts)[ridx] IN
       /\ Exited(j, "revoke")
       /\ \E o \in WaitResults(j, "revoke") : rv_return(j, revoke_exit(o))
    /\ UNCHANGED <<inputs, settings, rollback_inputs, revoked, idx, built,
                   pushed, succeeded, path, dp_result, child, stdin_writes, stdin,
                   thread, channels, c, events>>

-----------------------------------------------------------------------------
(* The environment *)

\* A running SSH child ends.  Children the orchestrator no longer waits for
\* go on running and end on their own; the model follows them for as long
\* as the program runs.
child_exit(i, k) ==
    /\ Running
    /\ child[i][k] = "running"
    /\ \E o \in Outcomes : child' = [child EXCEPT ![i][k] = o]
    /\ activate_at_wait_exit' =
           IF k = "wait"
           THEN [activate_at_wait_exit EXCEPT ![i] = child[i]["activate"]]
           ELSE activate_at_wait_exit
    /\ UNCHANGED <<inputs, settings, rollback_inputs, revoke_state, pc, idx,
                   built, pushed, succeeded, result, dpc, path, dp_result,
                   stdin_writes, stdin, thread, channels, c, selected,
                   wait_at_select>>

Next ==
    \/ build_profile
    \/ push_profile
    \/ deploy_enter
    \/ spawn_activate
    \/ sudo_activate
    \/ wait_activate
    \/ spawn_thread
    \/ spawn_wait
    \/ sudo_wait
    \/ select_wait
    \/ select_activate
    \/ confirm_spawn
    \/ sudo_confirm
    \/ confirm_wait
    \/ await_activated
    \/ join_thread
    \/ after_deploy
    \/ revoke_next
    \/ spawn_revoke
    \/ sudo_revoke
    \/ wait_revoke
    \/ \E i \in Items : thread_wait_with_output(i)
    \/ \E i \in Items : thread_send_activated(i)
    \/ \E i \in Items : thread_end(i)
    \/ \E i \in Items, k \in Kinds : child_exit(i, k)

Spec == Init /\ [][Next]_vars

\* deploy_profile of the first item of a run without --dry-activate and
\* --boot, right after the branch of deploy.rs:415 chose the magic path:
\* every item is built and pushed, nothing is spawned.
MagicInit ==
    /\ dry_activate = FALSE
    /\ boot = FALSE
    /\ stdin_handle = {stdin_piped}
    /\ NoLocals
    /\ Resolved
    /\ NoCommands
    /\ NoPrompt
    /\ parts = [i \in Items |-> i]
    /\ pc = "deploy"
    /\ dpc = "spawn_activate"
    /\ idx = 1
    /\ ridx = 1
    /\ built = parts
    /\ pushed = parts
    /\ succeeded = <<>>
    /\ revoked = <<>>
    /\ result = Returned("none", 0, "none")
    /\ rollback_succeeded = "unread"
    /\ cmd_auto_rollback = "unread"
    /\ auto_rollback = [i \in Items |-> "unread"]
    /\ merged_magic_rollback \in {"None", "Some_true"}
    /\ magic_rollback = [i \in Items |-> IF i = 1 THEN TRUE ELSE "unread"]
    /\ \E b \in BOOLEAN :
         sudo_stdin = [i \in Items |-> IF i = 1 THEN b ELSE "unread"]
    /\ path = [i \in Items |-> IF i = 1 THEN "MAGIC" ELSE "none"]
    /\ dp_result = [i \in Items |-> "none"]
    /\ rv_result = [i \in Items |-> "none"]
    /\ child = [i \in Items |-> NoChild]
    /\ stdin_writes = [i \in Items |-> [k \in Kinds |-> 0]]
    /\ stdin = [i \in Items |-> [k \in Kinds |-> "none"]]
    /\ thread = [i \in Items |-> "none"]
    /\ send_activate = [i \in Items |-> "none"]
    /\ recv_activate = [i \in Items |-> FALSE]
    /\ send_activated = [i \in Items |-> "none"]
    /\ recv_activated = [i \in Items |-> FALSE]
    /\ c = [i \in Items |-> "none"]
    /\ selected = [i \in Items |-> "none"]
    /\ wait_at_select = [i \in Items |-> "none"]
    /\ activate_at_wait_exit = [i \in Items |-> "none"]

\* The steps of the magic path of deploy_profile (deploy.rs:451-553), of
\* the task it spawns and of the SSH children.
MagicNext ==
    \/ spawn_activate
    \/ sudo_activate
    \/ spawn_thread
    \/ spawn_wait
    \/ sudo_wait
    \/ select_wait
    \/ select_activate
    \/ confirm_spawn
    \/ sudo_confirm
    \/ confirm_wait
    \/ await_activated
    \/ join_thread
    \/ \E i \in Items : thread_wait_with_output(i)
    \/ \E i \in Items : thread_send_activated(i)
    \/ \E i \in Items : thread_end(i)
    \/ \E i \in Items, k \in Kinds : child_exit(i, k)

progress == <<dpc, child, stdin_writes, thread, channels, dp_result, c>>

\* MagicNext with the scheduling of the tokio runtime and of the operating
\* system: a future that is ready is eventually polled, and a running
\* child eventually exits.  Every step of MagicNext changes `progress`.
MagicSpec == MagicInit /\ [][MagicNext]_vars /\ WF_progress(MagicNext)

\* The steps of run_deploy, deploy_profile and revoke that a run with
\* --dry-activate or --boot can take.
BatchNext ==
    \/ build_profile
    \/ push_profile
    \/ deploy_enter
    \/ spawn_activate
    \/ sudo_activate
    \/ wait_activate
    \/ after_deploy
    \/ revoke_next
    \/ spawn_revoke
    \/ sudo_revoke
    \/ wait_revoke
    \/ \E i \in BatchItems, k \in {"activate", "revoke"} : child_exit(i, k)

BatchSpec == BatchInit /\ [][BatchNext]_vars

SudoSpec == SudoInit /\ [][Next]_vars

-----------------------------------------------------------------------------
(* run_deploy: the parts loop, cli.rs:550-665, for the item idx *)

\* What the parts loop leaves alone.
downstream == <<dry_activate, boot, stdin_handle, front, settings, rollback_inputs,
                batch, revoke_state, path, dp_result, child, stdin_writes,
                stdin, thread, channels, c, events>>

parts_return_warn(kind, cause) ==
    /\ dpc' = "push"
    /\ UNCHANGED <<pc, result>>

\* A `return Err(...)` or `?` of the loop body.
parts_return(kind, cause) ==
    /\ result' = Returned(kind, 0, cause)
    /\ pc' = "returned"
    /\ dpc' = "done"

\* cli.rs:551-574: make_deploy_data, defs() and the sudo prefix.
make_deploy_data ==
    /\ pc = "parts"
    /\ dpc = "make_deploy_data"
    /\ \E sudo \in SudoCommands, is \in OptBool, sf \in SudoFiles,
          ss \in {None} \cup {Some(k) : k \in KeyPaths},
          ex \in {"yes", "no", "io_err"},
          defs \in DefsResults :
         /\ ex = "yes" \/ is_some(sf)
         /\ merged_sudo' = sudo
         /\ merged_interactive_sudo' = is
         /\ merged_sudo_file' = sf
         /\ merged_sudo_secret' = ss
         /\ sudo_file_exists' = IF is_some(sf) THEN ex ELSE "n/a"
         /\ IF ~defs.ok
            THEN /\ parts_return("DeployDataDefs", "DeployDataDefsError")
                 /\ UNCHANGED <<derived_sudo, deploy_defs_sudo>>
            ELSE /\ derived_sudo' = defs.sudo
                 /\ deploy_defs_sudo' = sudo_prefix(sudo_is_custom(sudo, is, ss), defs.sudo)
                 /\ dpc' = "secret"
                 /\ UNCHANGED <<pc, result>>
    /\ UNCHANGED <<downstream, idx, parts, deploy_defs_sudo_password, sops_m>>

\* cli.rs:576-600: choose how the password is obtained; on the interactive
\* branch prompt for it.
resolve_secret ==
    /\ pc = "parts"
    /\ dpc = "secret"
    /\ IF unwrap_or(merged_interactive_sudo, FALSE)
       THEN \E input \in PromptResults :
              /\ deploy_defs_sudo_password' = Some(input)
              /\ dpc' = "push"
       ELSE /\ dpc' = IF is_some(merged_sudo_file) /\ is_some(merged_sudo_secret)
                      THEN "try_exists" ELSE "push"
            /\ UNCHANGED deploy_defs_sudo_password
    /\ UNCHANGED <<downstream, pc, idx, parts, result, merged,
                   deploy_defs_sudo, sops_m>>

\* cli.rs:602-606: `try_exists(&path).await.unwrap()`; an io::Error panics.
try_exists ==
    /\ pc = "parts"
    /\ dpc = "try_exists"
    /\ CASE sudo_file_exists = "yes" ->
              /\ dpc' = "sops"
              /\ UNCHANGED <<pc, result>>
         [] sudo_file_exists = "no" ->
              parts_return("Sops", "SopsFileNotFound")
         [] OTHER ->
              /\ pc' = "panicked"
              /\ result' = Returned("panic", 0, "io::Error")
              /\ dpc' = "done"
    /\ UNCHANGED <<downstream, idx, parts, resolve>>

\* cli.rs:609-627: run sops, decode and parse its output.
sops_decrypt ==
    /\ pc = "parts"
    /\ dpc = "sops"
    /\ \/ \E e \in DecryptErrors :
            /\ parts_return("Sops", e)
            /\ UNCHANGED sops_m
       \/ \E doc \in Docs :
            /\ sops_m' = Some(doc)
            /\ dpc' = "walk"
            /\ UNCHANGED <<pc, result>>
    /\ UNCHANGED <<downstream, idx, parts, merged, deploy_defs_sudo,
                   deploy_defs_sudo_password>>

\* cli.rs:629-661: walk the key path and store the password.
sops_key_walk ==
    /\ pc = "parts"
    /\ dpc = "walk"
    /\ LET r == sops_walk(unwrap(sops_m), split(unwrap(merged_sudo_secret)), "") IN
       IF r.kind = "Ok"
       THEN /\ deploy_defs_sudo_password' = Some(r.sudo_password)
            /\ dpc' = "push"
            /\ UNCHANGED <<pc, result>>
       ELSE /\ parts_return("Sops", r.kind)
            /\ UNCHANGED deploy_defs_sudo_password
    /\ UNCHANGED <<downstream, idx, parts, merged, deploy_defs_sudo, sops_m>>

\* cli.rs:664: parts.push; the locals of the iteration end here.  After the
\* last item run_deploy goes on to the build pass.
parts_push ==
    /\ pc = "parts"
    /\ dpc = "push"
    /\ parts' = Append(parts, idx)
    /\ merged_sudo' = None
    /\ merged_interactive_sudo' = "None"
    /\ merged_sudo_file' = None
    /\ merged_sudo_secret' = None
    /\ sudo_file_exists' = "n/a"
    /\ derived_sudo' = None
    /\ deploy_defs_sudo' = None
    /\ deploy_defs_sudo_password' = None
    /\ sops_m' = None
    /\ IF idx = NumItems
       THEN pc' = "build" /\ idx' = 1 /\ dpc' = "idle"
       ELSE pc' = pc /\ idx' = idx + 1 /\ dpc' = "make_deploy_data"
    /\ UNCHANGED <<downstream, result>>

PartsNext ==
    \/ make_deploy_data
    \/ resolve_secret
    \/ try_exists
    \/ sops_decrypt
    \/ sops_key_walk
    \/ parts_push

PartsSpec == PartsInit /\ [][PartsNext]_vars

\* The parts loop followed by the build pass and the push pass
\* (cli.rs:550-700).
SecretsNext ==
    \/ make_deploy_data
    \/ resolve_secret
    \/ try_exists
    \/ sops_decrypt
    \/ sops_key_walk
    \/ parts_push
    \/ build_profile
    \/ push_profile

SecretsSpec == PartsInit /\ [][SecretsNext]_vars

-----------------------------------------------------------------------------
(* run: get_deployment_data (cli.rs:198-289) and the resolution of the
   targets in run_deploy (cli.rs:446-542) *)

\* The profile names and node names a descriptor is written with.
ProfileNames == {"a", "b", "c"}

NodeNames == {"n1", "n2"}

\* The orders in which the keys S of a HashMap can be iterated.
Orderings(S) ==
    {f \in [1..Cardinality(S) -> S] : \A x, y \in 1..Cardinality(S) : f[x] = f[y] => x = y}

\* node_settings.profiles_order: any list of the names a and c, profiles of
\* the node or not, with or without repetition.
ProfilesOrders == UNION {[1..n -> {"a", "c"}] : n \in 0..MaxOrder}

\* node_settings of a node: profiles_order, the keys of the map `profiles`,
\* and the order in which profiles.keys() yields them.
NodeSettings ==
    UNION {{[profiles_order |-> o, profiles |-> P, keys |-> k] :
                o \in ProfilesOrders, k \in Orderings(P)} : P \in SUBSET ProfileNames}

\* node_settings of the second node of a descriptor.
SecondNode == [profiles_order |-> <<"b">>, profiles |-> {"a", "b"}, keys |-> <<"a", "b">>]

\* deploy::data::Data: the map `nodes`, and the order in which iterating it
\* yields the nodes.
Descriptors ==
    {[nodes |-> <<>>, node_keys |-> <<>>]}
    \cup {[nodes |-> [n \in {"n1"} |-> ns], node_keys |-> <<"n1">>] : ns \in NodeSettings}
    \cup {[nodes |-> [n \in NodeNames |-> IF n = "n1" THEN ns ELSE SecondNode],
           node_keys |-> k] : ns \in NodeSettings, k \in Orderings(NodeNames)}

\* DeployFlake.node and DeployFlake.profile of a target.
Selectors == [node : {None, Some("n1"), Some("n2")}, profile : {None, Some("a")}]

\* Result<Vec<_>, RunDeployError>
Ok(v) == [ok |-> TRUE, v |-> v, err |-> "none", arg |-> ""]

Err(kind, arg) == [ok |-> FALSE, v |-> <<>>, err |-> kind, arg |-> arg]

\* An element of ToDeploy: target t, node and profile by name.
WorkItem(t, name, profile_name) ==
    [t |-> t, node |-> name, profile |-> profile_name]

profiles_list_push_always(profiles_list, profile_name) ==
    Append(profiles_list, profile_name)

\* cli.rs:489-491 and 520-522: push the name unless profiles_list has it.
profiles_list_push(profiles_list, profile_name) ==
    IF \E n \in 1..Len(profiles_list) : profiles_list[n] = profile_name
    THEN profiles_list
    ELSE Append(profiles_list, profile_name)

\* cli.rs:476-480 and 505-509: profiles_order followed by profiles.keys()
profile_names(node) == node.profiles_order \o node.keys

profiles_get_any(node, profile_name) == Some(profile_name)

\* node.node_settings.profiles.get(profile_name)
profiles_get(node, profile_name) ==
    IF profile_name \in node.profiles THEN Some(profile_name) ELSE None

RECURSIVE profiles_loop(_, _, _)
\* cli.rs:476-492 and 505-523: the loop that fills profiles_list.
profiles_loop(node, names, profiles_list) ==
    IF names = <<>>
    THEN Ok(profiles_list)
    ELSE IF ~is_some(profiles_get(node, Head(names)))
         THEN Err("ProfileNotFound", Head(names))
         ELSE profiles_loop(node, Tail(names),
                            profiles_list_push(profiles_list, Head(names)))

\* cli.rs:474-497 and 503-528: the work items of one node.
node_items(t, name, node) ==
    LET r == profiles_loop(node, profile_names(node), <<>>) IN
    IF r.ok
    THEN Ok([n \in 1..Len(r.v) |-> WorkItem(t, name, r.v[n])])
    ELSE r

RECURSIVE all_nodes(_, _, _, _)
\* cli.rs:499-534: every node of the descriptor, in iteration order.
all_nodes(t, d, node_keys, l) ==
    IF node_keys = <<>>
    THEN Ok(l)
    ELSE LET ll == node_items(t, Head(node_keys), d.nodes[Head(node_keys)]) IN
         IF ll.ok
         THEN all_nodes(t, d, Tail(node_keys), l \o ll.v)
         ELSE ll

selector_case_lenient(flake) ==
    CASE is_some(flake.node) /\ is_some(flake.profile) -> "node_profile"
      [] is_some(flake.node)                            -> "node"
      [] OTHER                                          -> "all"

\* The arm of the match on (&deploy_flake.node, &deploy_flake.profile),
\* cli.rs:450, 468, 499 and 535.
selector_case(flake) ==
    CASE is_some(flake.node) /\ is_some(flake.profile)   -> "node_profile"
      [] is_some(flake.node) /\ ~is_some(flake.profile)  -> "node"
      [] ~is_some(flake.node) /\ ~is_some(flake.profile) -> "all"
      [] OTHER                                           -> "profile"

\* cli.rs:449-538: the closure mapped over the targets, for target t with
\* the selector flake and the descriptor d.
to_deploys(t, flake, d) ==
    CASE selector_case(flake) = "node_profile" ->
            LET name == unwrap(flake.node)
                profile_name == unwrap(flake.profile) IN
            IF name \notin DOMAIN d.nodes
            THEN Err("NodeNotFound", name)
            ELSE IF ~is_some(profiles_get(d.nodes[name], profile_name))
                 THEN Err("ProfileNotFound", profile_name)
                 ELSE Ok(<<WorkItem(t, name, profile_name)>>)
      [] selector_case(flake) = "node" ->
            LET name == unwrap(flake.node) IN
            IF name \notin DOMAIN d.nodes
            THEN Err("NodeNotFound", name)
            ELSE node_items(t, name, d.nodes[name])
      [] selector_case(flake) = "all" ->
            all_nodes(t, d, d.node_keys, <<>>)
      [] selector_case(flake) = "profile" ->
            Err("ProfileWithoutNode", "")

collect_skip_err(acc, r) == IF r.ok THEN Ok(acc \o r.v) ELSE Ok(acc)

\* cli.rs:539-542: `.collect::<Result<Vec<Vec<_>>, _>>()?` and the flatten,
\* one target at a time: the items of an Ok are added to those collected so
\* far, the first Err is the result of the whole collect.
collect(acc, r) == IF r.ok THEN Ok(acc \o r.v) ELSE r

\* What the resolution leaves alone.
orchestrator == <<dry_activate, boot, parts, stdin_handle, resolve, prompt, settings,
                  rollback_inputs, batch, revoke_state, idx, dpc, path,
                  dp_result, child, stdin_writes, stdin, thread, channels, c,
                  events>>

\* The selector of target t: as read before, or read now.
read_selector(t, flake) ==
    IF t <= Len(deploy_flakes)
    THEN flake = deploy_flakes[t] /\ UNCHANGED deploy_flakes
    ELSE deploy_flakes' = Append(deploy_flakes, flake)

\* cli.rs:203-288: the evaluation of one target; the selector is read only
\* to build the flake expression (cli.rs:219-257).
get_deployment_data ==
    /\ pc = "get_deployment_data"
    /\ IF using_flakes
       THEN \E flake \in Selectors :
              /\ read_selector(tidx + 1, flake)
              /\ IF selector_case(flake) = "profile"
                 THEN /\ result' = Returned("GetDeploymentData", 0, "ProfileNoNode")
                      /\ pc' = "returned"
                      /\ UNCHANGED tidx
                 ELSE \E ok \in BOOLEAN :
                        IF ~ok
                        THEN /\ result' = Returned("GetDeploymentData", 0, "NixEval")
                             /\ pc' = "returned"
                             /\ UNCHANGED tidx
                        ELSE /\ IF tidx + 1 = NumTargets
                                THEN pc' = "resolve" /\ tidx' = 0
                                ELSE pc' = pc /\ tidx' = tidx + 1
                             /\ UNCHANGED result
       ELSE /\ UNCHANGED deploy_flakes
            /\ \E ok \in BOOLEAN :
                 IF ~ok
                 THEN /\ result' = Returned("GetDeploymentData", 0, "NixEval")
                      /\ pc' = "returned"
                      /\ UNCHANGED tidx
                 ELSE /\ IF tidx + 1 = NumTargets
                         THEN pc' = "resolve" /\ tidx' = 0
                         ELSE pc' = pc /\ tidx' = tidx + 1
                      /\ UNCHANGED result
    /\ UNCHANGED <<orchestrator, commands, using_flakes, data, to_deploy>>

\* cli.rs:446-542: the closure applied to the next target; collect() stops
\* at the first Err, and `?` returns it.
resolve_target ==
    /\ pc = "resolve"
    /\ \E flake \in Selectors :
         /\ read_selector(tidx + 1, flake)
         /\ LET r == collect(to_deploy, to_deploys(tidx + 1, flake, data)) IN
            IF r.ok
            THEN /\ to_deploy' = r.v
                 /\ tidx' = tidx + 1
                 /\ pc' = IF tidx + 1 = NumTargets THEN "resolved" ELSE pc
                 /\ UNCHANGED result
            ELSE /\ to_deploy' = <<>>
                 /\ result' = Returned(r.err, 0, r.arg)
                 /\ pc' = "returned"
                 /\ UNCHANGED tidx
    /\ UNCHANGED <<orchestrator, commands, using_flakes, data>>

\* run at the call of get_deployment_data (cli.rs:854).
ResolveInit ==
    /\ using_flakes \in BOOLEAN
    /\ deploy_flakes = <<>>
    /\ data \in Descriptors
    /\ tidx = 0
    /\ to_deploy = <<>>
    /\ NoCommands
    /\ NoPrompt
    /\ dry_activate = "unread"
    /\ boot = "unread"
    /\ stdin_handle = {stdin_piped}
    /\ Fresh(Items)
    /\ NoLocals
    /\ parts = <<>>
    /\ pc = "get_deployment_data"
    /\ dpc = "idle"

ResolveNext ==
    \/ get_deployment_data
    \/ resolve_target

ResolveSpec == ResolveInit /\ [][ResolveNext]_vars

-----------------------------------------------------------------------------
(* run, cli.rs:775-874, up to the call of run_deploy *)

\* What can end run between the options check and get_deployment_data:
\* parse_flake / parse_file (cli.rs:796-808), test_flake_support
\* (cli.rs:830) and check_deployment (cli.rs:844-851).
RunFailures == {"ParseFlake", "FlakeTest", "CheckDeployment"}

\* cli.rs:787-853.  `if opts.dry_activate && opts.boot` only logs
\* "Cannot use both --dry-activate & --boot!"; there is no return in its
\* body, so with both options set run goes on as without.
run_options ==
    /\ pc = "run"
    /\ \E r \in {"Ok"} \cup RunFailures :
         IF r = "Ok"
         THEN /\ pc' = "get_deployment_data"
              /\ UNCHANGED result
         ELSE /\ result' = Returned(r, 0, "run")
              /\ pc' = "returned"
    /\ UNCHANGED <<dry_activate, boot, parts, stdin_handle, resolve, front,
                   settings, rollback_inputs, batch, revoke_state, idx, dpc,
                   path, dp_result, child, stdin_writes, stdin, thread,
                   channels, c, events>>

\* run after Opts were parsed (cli.rs:780): opts.dry_activate and opts.boot
\* are any two booleans, clap declares no conflict between them.
RunInit ==
    /\ using_flakes \in BOOLEAN
    /\ deploy_flakes = <<>>
    /\ data \in Descriptors
    /\ tidx = 0
    /\ to_deploy = <<>>
    /\ NoCommands
    /\ NoPrompt
    /\ dry_activate \in BOOLEAN
    /\ boot \in BOOLEAN
    /\ stdin_handle = {stdin_piped}
    /\ Fresh(Items)
    /\ NoLocals
    /\ parts = <<>>
    /\ pc = "run"
    /\ dpc = "idle"

RunNext ==
    \/ run_options
    \/ get_deployment_data
    \/ resolve_target

RunSpec == RunInit /\ [][RunNext]_vars

-----------------------------------------------------------------------------
(* The ssh Commands of one item: deploy.rs:28-83, 129-155, 188-220,
   272-302, 370-413, 451-465, 481-488, 511-514 and 573-602 *)

\* ProfileInfo
ProfilePath(profile_path) ==
    [t |-> "ProfilePath", profile_path |-> profile_path,
     profile_user |-> "", profile_name |-> ""]

ProfileUserAndName(profile_user, profile_name) ==
    [t |-> "ProfileUserAndName", profile_path |-> "",
     profile_user |-> profile_user, profile_name |-> profile_name]

\* Option<u16> and Option<String> of the settings, None or Some(x).
unwrap_or_else(o, default) == IF is_some(o) THEN unwrap(o) ELSE default

\* deploy.rs:43-53 and 202-212: the profile selector of a command.
profile_selector(profile_info) ==
    IF profile_info.t = "ProfilePath"
    THEN "--profile-path '" \o profile_info.profile_path \o "'"
    ELSE "--profile-user " \o profile_info.profile_user
           \o " --profile-name " \o profile_info.profile_name

\* deploy.rs:29-37, 130-138, 189-197: `<closure>/activate-rs` and the
\* logging options.
self_activate_prefix(d) ==
    LET c0 == d.closure \o "/activate-rs"
        c1 == IF d.debug_logs THEN c0 \o " --debug-logs" ELSE c0
    IN  IF is_some(d.log_dir) THEN c1 \o " --log-dir " \o unwrap(d.log_dir) ELSE c1

\* deploy.rs:78-80, 150-152, 215-217, 290-292: the sudo prefix, prepended
\* to the finished command.
with_sudo(sudo, command) ==
    IF is_some(sudo) THEN unwrap(sudo) \o " " \o command ELSE command

build_activate_command_boot_first(d) ==
    LET c3 == self_activate_prefix(d) \o " activate '" \o d.closure \o "' "
                \o profile_selector(d.profile_info)
                \o " --temp-path '" \o d.temp_path \o "'"
        c4 == c3 \o " --confirm-timeout " \o ToString(d.confirm_timeout)
        c5 == IF d.magic_rollback THEN c4 \o " --magic-rollback" ELSE c4
        c6 == IF d.auto_rollback THEN c5 \o " --auto-rollback" ELSE c5
        c7 == IF d.boot THEN c6 \o " --boot" ELSE c6
        c8 == IF d.dry_activate THEN c7 \o " --dry-activate" ELSE c7
    IN  with_sudo(d.sudo, c8)

\* deploy.rs:28-83, on an ActivateCommandData
build_activate_command(d) ==
    LET c3 == self_activate_prefix(d) \o " activate '" \o d.closure \o "' "
                \o profile_selector(d.profile_info)
                \o " --temp-path '" \o d.temp_path \o "'"
        c4 == c3 \o " --confirm-timeout " \o ToString(d.confirm_timeout)
        c5 == IF d.magic_rollback THEN c4 \o " --magic-rollback" ELSE c4
        c6 == IF d.auto_rollback THEN c5 \o " --auto-rollback" ELSE c5
        c7 == IF d.dry_activate THEN c6 \o " --dry-activate" ELSE c6
        c8 == IF d.boot THEN c7 \o " --boot" ELSE c7
    IN  with_sudo(d.sudo, c8)

build_wait_command_timeout_first(d) ==
    LET c0 == self_activate_prefix(d) \o " wait '" \o d.closure \o "'"
        c1 == IF is_some(d.activation_timeout)
              THEN c0 \o " --activation-timeout " \o ToString(unwrap(d.activation_timeout))
              ELSE c0
    IN  with_sudo(d.sudo, c1 \o " --temp-path '" \o d.temp_path \o "'")

\* deploy.rs:129-155, on a WaitCommandData
build_wait_command(d) ==
    LET c0 == self_activate_prefix(d) \o " wait '" \o d.closure \o "'"
                \o " --temp-path '" \o d.temp_path \o "'"
        c1 == IF is_some(d.activation_timeout)
              THEN c0 \o " --activation-timeout " \o ToString(unwrap(d.activation_timeout))
              ELSE c0
    IN  with_sudo(d.sudo, c1)

build_revoke_command_with_closure(d) ==
    with_sudo(d.sudo, self_activate_prefix(d) \o " revoke '" \o d.closure \o "' "
                        \o profile_selector(d.profile_info))

\* deploy.rs:188-220, on a RevokeCommandData
build_revoke_command(d) ==
    with_sudo(d.sudo, self_activate_prefix(d) \o " revoke "
                        \o profile_selector(d.profile_info))

\* The closure paths of the model and what `sanitized` makes of them.
sanitized(closure) ==
    CASE closure = "/nix/store/blah/etc" -> "_nix_store_blah_etc"

\* make_lock_path(temp_path, closure)
make_lock_path(temp_path, closure) ==
    temp_path \o "/deploy-rs-canary-" \o sanitized(closure)

\* deploy.rs:370-373: the local temp_path of deploy_profile
deploy_profile_temp_path(s) == unwrap_or_else(s.temp_path, "/tmp")

confirm_temp_path_default(temp_path) == "/tmp"

\* deploy.rs:544: the temp_path argument of confirm_profile
confirm_temp_path(temp_path) == temp_path

\* deploy.rs:287-292: the command of confirm_profile
confirm_command(s, temp_path) ==
    with_sudo(s.sudo, "rm " \o make_lock_path(temp_path, s.closure))

\* deploy.rs:399-404: hostname and ssh_addr of deploy_profile
deploy_profile_ssh_addr(s) ==
    s.ssh_user \o "@" \o unwrap_or_else(s.hostname_override, s.hostname)

revoke_ssh_addr_node(s) == s.ssh_user \o "@" \o s.hostname

\* deploy.rs:583-588: hostname and ssh_addr of revoke
revoke_ssh_addr(s) ==
    s.ssh_user \o "@" \o unwrap_or_else(s.hostname_override, s.hostname)

\* deploy.rs:406-417, 481-488 with 512, 278-300, 590-600: Command::new("ssh")
\* with .arg(ssh_addr), one .arg per ssh_opt, and .arg(command)
ssh_command(ssh_addr, ssh_opts, command) == <<ssh_addr>> \o ssh_opts \o <<command>>

\* deploy.rs:383-395: the ActivateCommandData of deploy_profile
ActivateCommandData(s) ==
    [sudo |-> s.sudo, profile_info |-> s.profile_info, closure |-> s.closure,
     auto_rollback |-> unwrap_or(s.auto_rollback, TRUE),
     temp_path |-> deploy_profile_temp_path(s),
     confirm_timeout |-> unwrap_or_else(s.confirm_timeout, 30),
     magic_rollback |-> unwrap_or(s.magic_rollback, TRUE),
     debug_logs |-> s.debug_logs, log_dir |-> s.log_dir,
     dry_activate |-> dry_activate, boot |-> boot]

\* deploy.rs:451-458: the WaitCommandData of deploy_profile
WaitCommandData(s) ==
    [sudo |-> s.sudo, closure |-> s.closure,
     temp_path |-> deploy_profile_temp_path(s),
     activation_timeout |-> s.activation_timeout,
     debug_logs |-> s.debug_logs, log_dir |-> s.log_dir]

\* deploy.rs:573-579: the RevokeCommandData of revoke
RevokeCommandData(s) ==
    [sudo |-> s.sudo, closure |-> s.closure, profile_info |-> s.profile_info,
     debug_logs |-> s.debug_logs, log_dir |-> s.log_dir]

\* The settings of an item that the four commands are built from: the
\* merged settings, the DeployDefs, the profile and the node.
CommandSettings ==
    [sudo : {None, Some("sudo -u test")},
     profile_info : {ProfilePath("/blah/profiles/test"),
                     ProfilePath("/nix/var/nix/per-user/user/profile"),
                     ProfileUserAndName("user", "system")},
     closure : {"/nix/store/blah/etc"},
     auto_rollback : OptBool,
     temp_path : {None, Some("/var/tmp")},
     confirm_timeout : {None, Some(60)},
     activation_timeout : {None, Some(600)},
     magic_rollback : OptBool,
     debug_logs : BOOLEAN,
     log_dir : {None, Some("/tmp/something.txt")},
     hostname_override : {None, Some("10.0.0.1")},
     hostname : {"node1"},
     ssh_user : {"root"},
     ssh_opts : {<<>>, <<"-p", "2222">>}]

\* What building the commands leaves alone.
no_command == <<parts, stdin_handle, resolve, resolver, prompt, settings,
                rollback_inputs, batch, revoke_state, idx, result, path,
                dp_result, child, stdin_writes, stdin, thread, channels, c,
                events>>

\* deploy.rs:370-419 and 462-465: ssh(activate) of the item.
activate_command ==
    /\ pc = "commands"
    /\ dpc = "activate"
    /\ argv' = [argv EXCEPT !["activate"] =
                  ssh_command(deploy_profile_ssh_addr(cmd_data), cmd_data.ssh_opts,
                              build_activate_command(ActivateCommandData(cmd_data)))]
    /\ dpc' = IF use_simple_path(unwrap_or(cmd_data.magic_rollback, TRUE), dry_activate, boot)
              THEN "revoke" ELSE "wait"
    /\ UNCHANGED <<no_command, dry_activate, boot, cmd_data, pc>>

\* deploy.rs:451-458, 481-488 and 511-514: ssh(wait) of the item.
wait_command ==
    /\ pc = "commands"
    /\ dpc = "wait"
    /\ argv' = [argv EXCEPT !["wait"] =
                  ssh_command(deploy_profile_ssh_addr(cmd_data), cmd_data.ssh_opts,
                              build_wait_command(WaitCommandData(cmd_data)))]
    /\ dpc' = "confirm"
    /\ UNCHANGED <<no_command, dry_activate, boot, cmd_data, pc>>

\* deploy.rs:544 and 278-302: ssh(confirm) of the item.
confirm_profile_command ==
    /\ pc = "commands"
    /\ dpc = "confirm"
    /\ argv' = [argv EXCEPT !["confirm"] =
                  ssh_command(deploy_profile_ssh_addr(cmd_data), cmd_data.ssh_opts,
                              confirm_command(cmd_data,
                                  confirm_temp_path(deploy_profile_temp_path(cmd_data))))]
    /\ dpc' = "revoke"
    /\ UNCHANGED <<no_command, dry_activate, boot, cmd_data, pc>>

\* deploy.rs:573-602: ssh(revoke) of the item, when the batch rolls back.
revoke_command ==
    /\ pc = "commands"
    /\ dpc = "revoke"
    /\ argv' = [argv EXCEPT !["revoke"] =
                  ssh_command(revoke_ssh_addr(cmd_data), cmd_data.ssh_opts,
                              build_revoke_command(RevokeCommandData(cmd_data)))]
    /\ dpc' = "done"
    /\ UNCHANGED <<no_command, dry_activate, boot, cmd_data, pc>>

\* deploy_profile is called for an item with any settings.
CommandInit ==
    /\ dry_activate \in BOOLEAN
    /\ boot \in BOOLEAN
    /\ cmd_data \in CommandSettings
    /\ argv = [k \in Kinds |-> <<>>]
    /\ NoPrompt
    /\ stdin_handle = {stdin_piped}
    /\ Fresh(Items)
    /\ NoLocals
    /\ Resolved
    /\ parts = [i \in Items |-> i]
    /\ pc = "commands"
    /\ dpc = "activate"

CommandNext ==
    \/ activate_command
    \/ wait_command
    \/ confirm_profile_command
    \/ revoke_command

CommandSpec == CommandInit /\ [][CommandNext]_vars

-----------------------------------------------------------------------------
(* The question before the build pass, cli.rs:300-393 and 667-671 *)

\* What the matcher of the yn crate can make of a line: yn::yes holds of a
\* clear yes only, yn::is_somewhat_yes of a clear yes and of a somewhat-yes,
\* yn::no of a clear no only.
Answers == {"clear_yes", "somewhat_yes", "clear_no", "unclear"}

\* cli.rs:364, 378: yn::yes(&s)
yn_yes(s) == s = "clear_yes"

\* cli.rs:365: yn::is_somewhat_yes(&s)
yn_is_somewhat_yes(s) == s \in {"clear_yes", "somewhat_yes"}

\* cli.rs:383: yn::no(&s)
yn_no(s) == s = "clear_no"

\* cli.rs:364-390, on the first line read: Ok(()), the second question, or
\* Err(Cancelled); an answer that is not a clear no only adds a hint.
first_answer(s) ==
    IF yn_yes(s)
    THEN "Ok"
    ELSE IF yn_is_somewhat_yes(s)
         THEN "again"
         ELSE IF ~yn_no(s) THEN "Cancelled" ELSE "Cancelled"

second_answer_somewhat(s) == IF yn_is_somewhat_yes(s) THEN "Ok" ELSE "Cancelled"

\* cli.rs:378-380, on the second line read
second_answer(s) == IF yn_yes(s) THEN "Ok" ELSE "Cancelled"

\* What the prompt leaves alone.
prompt_frame ==
    UNCHANGED <<dry_activate, boot, parts, stdin_handle, resolve, resolver,
                commands, settings, rollback_inputs, batch, revoke_state, idx,
                path, dp_result, child, stdin_writes, stdin, thread, channels,
                c, events>>

\* `?` on a PromptDeploymentError at cli.rs:668
prompt_return(cause) ==
    /\ result' = Returned("PromptDeployment", 0, cause)
    /\ pc' = "returned"
    /\ UNCHANGED dpc

\* prompt_deployment returned Ok(()): run_deploy goes on to the build pass.
prompt_ok ==
    /\ pc' = "build"
    /\ dpc' = "idle"
    /\ UNCHANGED result

\* cli.rs:667-671 and 300-330: the branch on `interactive`, and
\* print_deployment, whose toml::to_string may fail; without --interactive
\* nothing is asked.
print_deployment ==
    /\ pc = "prompt"
    /\ dpc = "print"
    /\ \E toml_ok \in BOOLEAN :
         IF ~toml_ok
         THEN IF interactive
              THEN prompt_return("TomlFormat")
              ELSE /\ result' = Returned("TomlFormat", 0, "toml::ser::Error")
                   /\ pc' = "returned"
                   /\ UNCHANGED dpc
         ELSE IF interactive
              THEN /\ dpc' = "ask"
                   /\ UNCHANGED <<pc, result>>
              ELSE prompt_ok
    /\ UNCHANGED <<interactive, answers>>
    /\ prompt_frame

\* cli.rs:352-390: the first question.
ask ==
    /\ pc = "prompt"
    /\ dpc = "ask"
    /\ \E flush_ok \in BOOLEAN, read_ok \in BOOLEAN, s \in Answers :
         IF ~flush_ok
         THEN prompt_return("StdoutFlush") /\ UNCHANGED answers
         ELSE IF ~read_ok
              THEN prompt_return("StdinRead") /\ UNCHANGED answers
              ELSE /\ answers' = Append(answers, s)
                   /\ CASE first_answer(s) = "Ok" -> prompt_ok
                        [] first_answer(s) = "again" ->
                               /\ dpc' = "ask_again"
                               /\ UNCHANGED <<pc, result>>
                        [] OTHER -> prompt_return("Cancelled")
    /\ UNCHANGED interactive
    /\ prompt_frame

\* cli.rs:366-380: the second question, after a somewhat-yes.
ask_again ==
    /\ pc = "prompt"
    /\ dpc = "ask_again"
    /\ \E flush_ok \in BOOLEAN, read_ok \in BOOLEAN, s \in Answers :
         IF ~flush_ok
         THEN prompt_return("StdoutFlush") /\ UNCHANGED answers
         ELSE IF ~read_ok
              THEN prompt_return("StdinRead") /\ UNCHANGED answers
              ELSE /\ answers' = Append(answers, s)
                   /\ IF second_answer(s) = "Ok"
                      THEN prompt_ok
                      ELSE prompt_return("Cancelled")
    /\ UNCHANGED interactive
    /\ prompt_frame

\* run_deploy at cli.rs:667 with the items of `parts` collected, for a run
\* with --dry-activate or --boot.
PromptInit ==
    /\ dry_activate \in BOOLEAN
    /\ boot \in BOOLEAN
    /\ dry_activate \/ boot
    /\ stdin_handle = {stdin_piped}
    /\ Fresh(Items)
    /\ NoLocals
    /\ Resolved
    /\ NoCommands
    /\ interactive \in BOOLEAN
    /\ answers = <<>>
    /\ parts = [i \in Items |-> i]
    /\ pc = "prompt"
    /\ dpc = "print"

PromptNext ==
    \/ print_deployment
    \/ ask
    \/ ask_again
    \/ build_profile
    \/ push_profile
    \/ deploy_enter
    \/ spawn_activate
    \/ sudo_activate
    \/ wait_activate
    \/ after_deploy
    \/ revoke_next
    \/ spawn_revoke
    \/ sudo_revoke
    \/ wait_revoke
    \/ \E i \in Items, k \in {"activate", "revoke"} : child_exit(i, k)

PromptSpec == PromptInit /\ [][PromptNext]_vars

-----------------------------------------------------------------------------
(* Properties *)

InSeq(s, i) == \E n \in 1..Len(s) : s[n] = i

Magic(i) == path[i] = "MAGIC"

Simple(i) == path[i] = "SIMPLE"

\* deploy_profile of item i was entered and has not returned yet
InProgress(i) == path[i] # "none" /\ dp_result[i] = "none"

\* deploy_profile of item i has returned (or panicked)
Finished(i) == dp_result[i] # "none"

TaskRunning(i) == thread[i] \in {"wait_with_output", "send_activated", "end"}

\* C1: on the magic-rollback path deploy_profile returns Ok only when
\* ssh(wait) exited with code 0, ssh(confirm) exited with code 0 and the
\* activate task has finished (the join at deploy.rs:548 has completed).
C1_OkOnlyAfterWaitConfirmJoin ==
    \A i \in Items :
        (Magic(i) /\ dp_result[i] = "Ok")
            => /\ child[i]["wait"] = "exit0"
               /\ child[i]["confirm"] = "exit0"
               /\ child[i]["activate"] \in Outcomes
               /\ thread[i] = "finished"

C1_Witness == \E i \in Items : Magic(i) /\ dp_result[i] = "Ok"

\* C2: on the magic-rollback path, when ssh(activate) exits with code 0
\* before ssh(wait) exits, and no child exits with another code, then
\* deploy_profile does not end otherwise than with Ok, after having spawned
\* confirm.
C2_ActivateExitsFirstThenOk ==
    \A i \in Items :
        ( /\ Magic(i)
          /\ Finished(i)
          /\ child[i]["activate"] = "exit0"
          /\ \/ activate_at_wait_exit[i] = "exit0" /\ child[i]["wait"] = "exit0"
             \/ child[i]["wait"] = "running"
          /\ child[i]["confirm"] \in {"none", "exit0"} )
            => (dp_result[i] = "Ok" /\ child[i]["confirm"] = "exit0")

C4_FirstFailureIsReturned ==
    \A i \in Items :
        (Magic(i) /\ Finished(i))
            => /\ (selected[i] = "recv_activate" /\ send_activate[i] = "SSHActivateExit")
                      => dp_result[i] = "SSHActivateExit"
               /\ (selected[i] = "wait" /\ wait_at_select[i] = "exitN")
                      => dp_result[i] = "SSHWaitExit"
               /\ (selected[i] = "wait" /\ wait_at_select[i] = "exit0"
                        /\ activate_at_wait_exit[i] = "running"
                        /\ c[i] = "SSHConfirmExit")
                      => dp_result[i] = "Confirm"

\* C5: when a magic-rollback handshake fails after ssh(activate) was
\* spawned, the activate task has been joined by the time deploy_profile
\* returns: neither the task nor ssh(activate) is still running.
C5_ActivateJoinedOnFailure ==
    \A i \in Items :
        ( /\ Magic(i)
          /\ dp_result[i] \notin {"none", "Ok", "panic"}
          /\ Spawned(i, "activate") )
            => /\ child[i]["activate"] # "running"
               /\ ~TaskRunning(i)

\* C6: deploy_profile takes the SIMPLE path exactly when dry_activate or
\* boot is set or the effective magic_rollback is false (the merged setting
\* is Some(false); None counts as true), and the MAGIC path otherwise; on the
\* SIMPLE path only ssh(activate) is spawned, no wait, no confirm and no
\* task, and the result is Ok when activate exits 0 and SSHActivateExit when
\* it exits with another code.
C6_SimplePath ==
    \A i \in Items :
        path[i] # "none"
            => /\ (i = idx /\ dpc = "spawn_activate")
                    => (magic_rollback[i] <=> merged_magic_rollback # "Some_false")
               /\ Simple(i) <=> (dry_activate \/ boot \/ ~magic_rollback[i])
               /\ Magic(i) <=> ~(dry_activate \/ boot \/ ~magic_rollback[i])
               /\ Simple(i)
                    => /\ child[i]["wait"] = "none"
                       /\ child[i]["confirm"] = "none"
                       /\ thread[i] = "none"
                       /\ Finished(i) => child[i]["activate"] # "none"
                       /\ (Finished(i) /\ child[i]["activate"] = "exit0")
                             => dp_result[i] = "Ok"
                       /\ (Finished(i) /\ child[i]["activate"] = "exitN")
                             => dp_result[i] = "SSHActivateExit"
                       /\ dp_result[i] = "Ok" => child[i]["activate"] = "exit0"

C6_Witness ==
    \E i \in Items :
        /\ Simple(i)
        /\ ~boot
        /\ ~dry_activate
        /\ ~magic_rollback[i]
        /\ dp_result[i] = "Ok"

\* C7: within a magic-rollback item ssh(wait) is spawned only after
\* ssh(activate) was spawned, ssh(confirm) is spawned only after ssh(wait)
\* exited with code 0, and the item is in succeeded only after ssh(confirm)
\* has completed (with code 0).
C7_HandshakeOrder ==
    \A i \in Items :
        Magic(i)
            => /\ child[i]["wait"] # "none" => Spawned(i, "activate")
               /\ child[i]["confirm"] # "none" => child[i]["wait"] = "exit0"
               /\ InSeq(succeeded, i) => child[i]["confirm"] = "exit0"

C7_Witness ==
    \E i \in Items : Magic(i) /\ InSeq(succeeded, i) /\ child[i]["confirm"] = "exit0"

ActivationStarted == \E i \in Items : path[i] # "none" \/ child[i] # NoChild

\* C8: a push happens only after every item was built, an activation only
\* after every item was pushed; when a build fails nothing is pushed,
\* activated or revoked.
C8_BuildThenPushThenActivate ==
    /\ (pushed # <<>> \/ result.kind = "PushProfile") => Len(built) = NumItems
    /\ ActivationStarted => (Len(built) = NumItems /\ Len(pushed) = NumItems)
    /\ revoked # <<>> => Len(pushed) = NumItems
    /\ result.kind = "BuildProfile"
          => (pushed # <<>> \/ ActivationStarted \/ revoked # <<>>) = FALSE

C8_Witness == ActivationStarted /\ Len(pushed) = NumItems

\* C9: items are activated one after another in the order of `parts`: item
\* j is entered only after deploy_profile returned Ok for every earlier
\* item (a magic item: with its confirm done), at most one handshake is in
\* progress, no child or task of another item runs during it, and after a
\* failed activation no later item is entered.
C9_Sequential ==
    /\ \A i, j \in Items :
          (i < j /\ path[j] # "none")
             => /\ dp_result[i] = "Ok"
                /\ Magic(i) => child[i]["confirm"] = "exit0"
    /\ Cardinality({i \in Items : InProgress(i)}) <= 1
    /\ \A i, j \in Items :
          (i # j /\ InProgress(j))
             => /\ \A k \in {"activate", "wait", "confirm"} : child[i][k] # "running"
                /\ ~TaskRunning(i)
    /\ \A i, j \in Items :
          (i < j /\ dp_result[i] \notin {"none", "Ok"}) => path[j] = "none"

C9_Witness ==
    \E i, j \in Items : i < j /\ InProgress(j) /\ Magic(i) /\ Magic(j)

\* C10: when the activation of every item succeeded, run_deploy returns Ok,
\* succeeded lists all items in the order of activation and no revoke was
\* issued.
C10_AllSucceed ==
    (pc = "returned" /\ \A i \in Items : dp_result[i] = "Ok")
        => /\ succeeded = [n \in 1..NumItems |-> n]
           /\ revoked = <<>>
           /\ \A i \in Items : child[i]["revoke"] = "none"
           /\ result.kind = "Ok"

C10_Witness ==
    /\ pc = "returned"
    /\ \A i \in Items : dp_result[i] = "Ok"
    /\ Len(succeeded) = NumItems

-----------------------------------------------------------------------------
(* Batch rollback, cli.rs:709-731 *)

\* deploy_profile returned an error for parts[idx] and run_deploy has taken
\* the decision of cli.rs:715 (both flags have been read).
ActivationFailed ==
    /\ pc \in {"revoke", "returned"}
    /\ dp_result[idx] \notin {"none", "Ok"}

\* The revoke loop has taken its decision for succeeded[n].
Visited(n) == n < ridx \/ (n = ridx /\ dpc # "idle")

Count(s, i) == Cardinality({n \in 1..Len(s) : s[n] = i})

IsPrefix(s, t) == Len(s) <= Len(t) /\ \A n \in 1..Len(s) : s[n] = t[n]

RevokeIssued(i) == InSeq(revoked, i) \/ child[i]["revoke"] # "none"

C12_DryRunNeverRevokes ==
    dry_activate
        => /\ \A i \in Items : ~RevokeIssued(i)
           /\ pc # "revoke"
           /\ (pc = "returned" /\ ActivationFailed)
                => result = Returned("DeployProfile", node_name(idx), dp_result[idx])

\* C13: when the activation of item k fails while rollback_succeeded is
\* false or the CLI auto_rollback is Some(false), no revoke is issued and
\* run_deploy returns DeployProfile(node of k, the deploy_profile error).
C13_NoRollbackPropagates ==
    (ActivationFailed /\ (~rollback_succeeded \/ cmd_auto_rollback = "Some_false"))
        => /\ \A i \in Items : ~RevokeIssued(i) /\ rv_result[i] = "none"
           /\ pc = "returned"
           /\ result = Returned("DeployProfile", node_name(idx), dp_result[idx])

\* Item 1 succeeded, item 2 failed, --auto-rollback false on the CLI.
C13_Witness ==
    /\ ActivationFailed
    /\ rollback_succeeded
    /\ cmd_auto_rollback = "Some_false"
    /\ succeeded = <<1>>
    /\ result.kind = "DeployProfile"

\* C14: the first revoke that fails ends the rollback: run_deploy returns
\* RevokeProfile(node of that item, cause), no revoke is issued for a
\* succeeded item after it, and Rollback is not returned.
C14_RevokeFailureStops ==
    \A n \in 1..Len(succeeded) :
        rv_result[succeeded[n]] \notin {"none", "Ok"}
            => /\ pc = "returned"
               /\ result = Returned("RevokeProfile", node_name(succeeded[n]),
                                    rv_result[succeeded[n]])
               /\ \A m \in 1..Len(succeeded) :
                    m > n => ~RevokeIssued(succeeded[m])

\* Items 1 and 2 succeeded, item 3 failed, the revoke of item 1 failed.
C14_Witness ==
    /\ succeeded = <<1, 2>>
    /\ idx = 3
    /\ rv_result[1] = "SSHRevokeExit"
    /\ result.kind = "RevokeProfile"

\* C15: succeeded only grows at its end, an item enters it only after its
\* deploy_profile returned Ok in a run that is neither dry-activate nor
\* boot, and in a dry-activate or boot run it stays empty.
C15_SucceededOnlyRealActivations ==
    /\ [][IsPrefix(succeeded, succeeded')]_vars
    /\ [](\A i \in Items : InSeq(succeeded, i) => dp_result[i] = "Ok")
    /\ []((dry_activate \/ boot) => succeeded = <<>>)

-----------------------------------------------------------------------------
(* Sudo password on stdin, deploy.rs:245-260 and its four call sites *)

\* Position of the orchestrator between the spawn of a child and the
\* password write for it.
sudo_pos(k) ==
    CASE k = "activate" -> "sudo_activate"
      [] k = "wait"     -> "sudo_wait"
      [] k = "confirm"  -> "sudo_confirm"
      [] k = "revoke"   -> "sudo_revoke"

\* The orchestrator has spawned child k of item i and has not yet called
\* handle_sudo_stdin for it; it has not started to wait for the child.
AtSudo(i, k) ==
    /\ dpc = sudo_pos(k)
    /\ IF k = "revoke"
       THEN pc = "revoke" /\ succeeded[ridx] = i /\ rv_result[i] = "none"
       ELSE /\ pc = "deploy"
            /\ idx = i
            /\ dp_result[i] = "none"
            /\ k = "activate" => thread[i] = "none"
            /\ k = "wait" => selected[i] = "none"
            /\ k = "confirm" => c[i] = "none"

\* The operation that owns child k of item i failed on the missing stdin
\* handle, without waiting for the child.
PipeFailed(i, k) ==
    CASE k = "activate" -> /\ dp_result[i] = "SSHActivatePipe"
                           /\ thread[i] = "none"
                           /\ child[i]["wait"] = "none"
      [] k = "wait"     -> /\ dp_result[i] = "SSHActivatePipe"
                           /\ selected[i] = "none"
                           /\ child[i]["confirm"] = "none"
      [] k = "confirm"  -> /\ c[i] = "SSHConfirm"
                           /\ dp_result[i] # "Ok"
      [] k = "revoke"   -> /\ rv_result[i] = "SSHRevoke"
                           /\ result = Returned("RevokeProfile", node_name(i), "SSHRevoke")

\* C16: for every spawned SSH child of an item, when interactive_sudo is
\* true or sudo_secret is set the password line is written to its stdin
\* once, after the spawn and before the orchestrator waits for the child;
\* when neither is set nothing is written; and a child without a stdin
\* handle makes the operation fail with the error of handle_sudo_stdin,
\* nothing written and the child not waited for.
C16_SudoStdin ==
    \A i \in Items, k \in Kinds :
        /\ stdin_writes[i][k] \in {0, 1}
        /\ ~Spawned(i, k) => (stdin_writes[i][k] = 0 /\ stdin[i][k] = "none")
        /\ Spawned(i, k)
             => IF sudo_stdin[i]
                THEN \/ AtSudo(i, k) /\ stdin_writes[i][k] = 0 /\ stdin[i][k] = "none"
                     \/ stdin[i][k] = "Some" /\ stdin_writes[i][k] = 1
                     \/ stdin[i][k] = "None" /\ stdin_writes[i][k] = 0 /\ PipeFailed(i, k)
                ELSE stdin_writes[i][k] = 0 /\ stdin[i][k] = "none"

\* Item 1 went through the whole handshake with a password write to each of
\* activate, wait and confirm and was later revoked with a password write;
\* ssh(wait) of item 2 had no stdin handle.
C16_Witness ==
    /\ \A k \in Kinds : stdin_writes[1][k] = 1
    /\ stdin[2]["activate"] = "Some"
    /\ stdin[2]["wait"] = "None"
    /\ dp_result[2] = "SSHActivatePipe"

-----------------------------------------------------------------------------
(* Sudo prefix and secret resolution, cli.rs:562-662 *)

\* The loop body is past cli.rs:574 for the current item: its settings have
\* been read and deploy_defs.sudo has its final value.
PrefixDone ==
    \/ pc = "parts" /\ dpc # "make_deploy_data"
    \/ pc \in {"returned", "panicked"} /\ result.kind \in {"Sops", "panic"}

\* `<base> -S -p ""` for the prefixes defs() can derive.
WrappedPrefix(derived) ==
    CASE derived = None                 -> "sudo -S -p \"\""
      [] derived = Some("sudo -u root") -> "sudo -u root -S -p \"\""
      [] derived = Some("doas -u root") -> "doas -u root -S -p \"\""

\* C17: when a custom sudo command is set together with interactive_sudo
\* or sudo_secret (either of them being set), deploy_defs.sudo is the
\* derived prefix unchanged; in every other case it is `<base> -S -p ""`
\* with <base> the derived prefix, or `sudo` when none was derived.
C17_SudoPrefix ==
    PrefixDone
        => IF /\ is_some(merged_sudo)
              /\ (merged_interactive_sudo # "None" \/ is_some(merged_sudo_secret))
           THEN deploy_defs_sudo = derived_sudo
           ELSE deploy_defs_sudo = Some(WrappedPrefix(derived_sudo))

\* A custom sudo command with interactive sudo: the derived prefix is kept.
C17_Witness ==
    /\ pc = "parts"
    /\ dpc = "push"
    /\ merged_sudo = Some("doas -u")
    /\ merged_interactive_sudo = "Some_true"
    /\ merged_sudo_secret = None
    /\ derived_sudo = Some("doas -u root")
    /\ deploy_defs_sudo = Some("doas -u root")

\* The key walk of the current item has run on the parsed document.
Walked == is_some(sops_m) /\ dpc # "walk"

RECURSIVE ObjAt(_, _, _)
\* The object reached from m through the first n segments of segs when each
\* of them names a nested object; None otherwise.
ObjAt(m, segs, n) ==
    IF n = 0
    THEN Some(m)
    ELSE LET o == ObjAt(m, segs, n - 1) IN
         IF /\ is_some(o)
            /\ segs[n] \in DOMAIN unwrap(o)
            /\ unwrap(o)[segs[n]].t = "Object"
         THEN Some(unwrap(o)[segs[n]].v)
         ELSE None

IsScalar(v) == v.t \in {"String", "Number", "Bool"}

\* The password a string, number or bool stands for.
Stringified(v) ==
    CASE v.t = "String" -> v.v
      [] v.t = "Number" -> IF v.v = 7 THEN "7" ELSE "other"
      [] v.t = "Bool"   -> IF v.v THEN "true" ELSE "false"

ResolvedTo(pw) ==
    /\ pc = "parts"
    /\ dpc = "push"
    /\ deploy_defs_sudo_password = Some(pw)

FailedWith(cause) ==
    /\ pc = "returned"
    /\ result = Returned("Sops", 0, cause)

C19_ScalarEndsTraversal ==
    Walked =>
        \A segs \in SegLists :
            join(segs) = unwrap(merged_sudo_secret) =>
                \A n \in 1..Len(segs) :
                    LET o == ObjAt(unwrap(sops_m), segs, n - 1) IN
                    (is_some(o) /\ segs[n] \in DOMAIN unwrap(o)
                                /\ IsScalar(unwrap(o)[segs[n]]))
                        => ResolvedTo(Stringified(unwrap(o)[segs[n]]))

\* C20: when sudo_file is set and the file does not exist, the secret
\* resolution of the item ends with SopsFileNotFound, whatever sudo_secret
\* and interactive_sudo are.
C20_MissingFileFails ==
    (/\ PrefixDone
     /\ dpc \in {"push", "done"}
     /\ is_some(merged_sudo_file)
     /\ sudo_file_exists = "no")
        => FailedWith("SopsFileNotFound")

-----------------------------------------------------------------------------
(* Resolution of the targets, cli.rs:198-289 and 446-542 *)

\* The closure of cli.rs:449 was applied to target t and gave work items.
ResolvedOk(t) == pc \in {"resolve", "resolved"} /\ t <= tidx

\* The closure of cli.rs:449 was applied to target t and gave an error,
\* which run_deploy returned.
ResolveFailed(t) ==
    /\ pc = "returned"
    /\ result.kind \in {"NodeNotFound", "ProfileNotFound", "ProfileWithoutNode"}
    /\ t = tidx + 1

Attempted(t) == ResolvedOk(t) \/ ResolveFailed(t)

\* The work items of target t, in order.
ItemsOf(t) == SelectSeq(to_deploy, LAMBDA x : x.t = t)

\* The profiles of the work items of target t on node n, in order.
ProfilesOf(t, n) ==
    LET its == SelectSeq(to_deploy, LAMBDA x : x.t = t /\ x.node = n) IN
    [k \in 1..Len(its) |-> its[k].profile]

Named(order, p) == \E k \in 1..Len(order) : order[k] = p

FirstAt(order, p) == CHOOSE k \in 1..Len(order) : order[k] = p /\ \A m \in 1..(k - 1) : order[m] # p

\* ps lists every profile of the node once, the ones profiles_order names
\* first and in the order of their first occurrence there.
OrderRule(ps, node) ==
    /\ \A p \in node.profiles : Count(ps, p) = 1
    /\ \A k \in 1..Len(ps) : ps[k] \in node.profiles
    /\ \A i, j \in 1..Len(ps) :
         i < j =>
           /\ Named(node.profiles_order, ps[j]) => Named(node.profiles_order, ps[i])
           /\ Named(node.profiles_order, ps[j])
                => FirstAt(node.profiles_order, ps[i]) < FirstAt(node.profiles_order, ps[j])

\* profiles_order names profiles of the node only.
KnownOrder(node) ==
    \A k \in 1..Len(node.profiles_order) : node.profiles_order[k] \in node.profiles

\* The first name of profiles_order that is not a profile of the node.
FirstUnknown(node) ==
    node.profiles_order[CHOOSE k \in 1..Len(node.profiles_order) :
                            /\ node.profiles_order[k] \notin node.profiles
                            /\ \A m \in 1..(k - 1) : node.profiles_order[m] \in node.profiles]

IsNodeOnly(flake) == is_some(flake.node) /\ ~is_some(flake.profile)

IsAll(flake) == ~is_some(flake.node) /\ ~is_some(flake.profile)

\* C21 as amended: for a selector (node, *) whose node is in the descriptor
\* and whose profilesOrder names profiles of the node only, the resolver
\* emits every profile of the node exactly once, the profiles named in
\* profilesOrder first and in profilesOrder order (first occurrence wins);
\* when profilesOrder names something that is not a profile of the node,
\* resolution fails with ProfileNotFound of the first such name.  The
\* selector (*, *) applies the same rule to every node.
C21_ProfilesOrderFirst ==
    \A t \in 1..NumTargets :
        Attempted(t) =>
            LET flake == deploy_flakes[t] IN
            /\ (IsNodeOnly(flake) /\ unwrap(flake.node) \in DOMAIN data.nodes)
                 => LET n == unwrap(flake.node) IN
                    IF KnownOrder(data.nodes[n])
                    THEN /\ ResolvedOk(t)
                         /\ OrderRule(ProfilesOf(t, n), data.nodes[n])
                         /\ \A k \in 1..Len(ItemsOf(t)) : ItemsOf(t)[k].node = n
                    ELSE /\ ResolveFailed(t)
                         /\ result = Returned("ProfileNotFound", 0, FirstUnknown(data.nodes[n]))
            /\ IsAll(flake)
                 => IF \A n \in DOMAIN data.nodes : KnownOrder(data.nodes[n])
                    THEN /\ ResolvedOk(t)
                         /\ \A n \in DOMAIN data.nodes :
                                OrderRule(ProfilesOf(t, n), data.nodes[n])
                    ELSE /\ ResolveFailed(t)
                         /\ result.kind = "ProfileNotFound"

\* profilesOrder [a, c] with profiles {b, c, a}, selected by (n1, *), gave
\* [a, c, b].
C21_Witness ==
    /\ ResolvedOk(1)
    /\ deploy_flakes[1] = [node |-> Some("n1"), profile |-> None]
    /\ "n1" \in DOMAIN data.nodes
    /\ data.nodes["n1"].profiles_order = <<"a", "c">>
    /\ data.nodes["n1"].profiles = {"a", "b", "c"}
    /\ ProfilesOf(1, "n1") = <<"a", "c", "b">>

\* C21: for a selector (node, *) the resolver emits every profile of the
\* node exactly once, the profiles named in profilesOrder first and in
\* profilesOrder order; the selector (*, *) applies the same rule to every
\* node.
C21_EveryProfileOnce ==
    \A t \in 1..NumTargets :
        Attempted(t) =>
            LET flake == deploy_flakes[t] IN
            /\ (IsNodeOnly(flake) /\ unwrap(flake.node) \in DOMAIN data.nodes)
                 => /\ ResolvedOk(t)
                    /\ OrderRule(ProfilesOf(t, unwrap(flake.node)),
                                 data.nodes[unwrap(flake.node)])
            /\ IsAll(flake)
                 => /\ ResolvedOk(t)
                    /\ \A n \in DOMAIN data.nodes :
                           OrderRule(ProfilesOf(t, n), data.nodes[n])

\* C22: once a target whose selector has a profile but no node is read,
\* the run has returned: run_deploy's resolution returns ProfileWithoutNode
\* (or get_deployment_data has rejected the target before run_deploy was
\* called), and nothing was collected, built, pushed or spawned.
C22_ProfileWithoutNode ==
    \A t \in 1..Len(deploy_flakes) :
        (~is_some(deploy_flakes[t].node) /\ is_some(deploy_flakes[t].profile))
            => /\ pc = "returned"
               /\ IF using_flakes
                  THEN result = Returned("GetDeploymentData", 0, "ProfileNoNode")
                  ELSE /\ ResolveFailed(t)
                       /\ result = Returned("ProfileWithoutNode", 0, "")
               /\ to_deploy = <<>>
               /\ parts = <<>>
               /\ built = <<>>
               /\ pushed = <<>>
               /\ \A i \in Items : child[i] = NoChild

\* The second target of a run is (*, a); the first one was resolved.
C22_Witness ==
    /\ ~using_flakes
    /\ Len(deploy_flakes) = 2
    /\ deploy_flakes[2] = [node |-> None, profile |-> Some("a")]
    /\ ResolveFailed(2)
    /\ result = Returned("ProfileWithoutNode", 0, "")

\* C23: for a selector (node, profile): NodeNotFound(node) when the node is
\* not in the descriptor, ProfileNotFound(profile) when the node has no
\* such profile, and otherwise exactly one work item, for that node and
\* profile.
C23_NodeProfileLookup ==
    \A t \in 1..NumTargets :
        Attempted(t) =>
            LET flake == deploy_flakes[t] IN
            (is_some(flake.node) /\ is_some(flake.profile))
                => LET n == unwrap(flake.node)
                       p == unwrap(flake.profile) IN
                   IF n \notin DOMAIN data.nodes
                   THEN ResolveFailed(t) /\ result = Returned("NodeNotFound", 0, n)
                   ELSE IF p \notin data.nodes[n].profiles
                        THEN ResolveFailed(t) /\ result = Returned("ProfileNotFound", 0, p)
                        ELSE /\ ResolvedOk(t)
                             /\ ItemsOf(t) = <<WorkItem(t, n, p)>>

\* (n1, a) gave one work item; (n2, a) after it failed because the
\* descriptor has no node n2.
C23_Witness ==
    /\ deploy_flakes = <<[node |-> Some("n1"), profile |-> Some("a")],
                         [node |-> Some("n2"), profile |-> Some("a")]>>
    /\ ResolveFailed(2)
    /\ result = Returned("NodeNotFound", 0, "n2")

-----------------------------------------------------------------------------
(* The ssh Commands of an item *)

Built(k) == argv[k] # <<>>

\* The remote command of ssh(k): the last argument.
RemoteCommand(k) == argv[k][Len(argv[k])]

RECURSIVE JoinSp(_)
\* The tokens, separated by single spaces.
JoinSp(tokens) ==
    IF Len(tokens) = 1
    THEN tokens[1]
    ELSE tokens[1] \o " " \o JoinSp(Tail(tokens))

\* The token when the flag or option is set, nothing otherwise.
Opt(set, token) == IF set THEN <<token>> ELSE <<>>

SudoToken == Opt(is_some(cmd_data.sudo), IF is_some(cmd_data.sudo) THEN unwrap(cmd_data.sudo) ELSE "")

LogTokens ==
    Opt(cmd_data.debug_logs, "--debug-logs")
    \o Opt(is_some(cmd_data.log_dir),
           "--log-dir " \o (IF is_some(cmd_data.log_dir) THEN unwrap(cmd_data.log_dir) ELSE ""))

SelectorToken ==
    IF cmd_data.profile_info.t = "ProfilePath"
    THEN "--profile-path '" \o cmd_data.profile_info.profile_path \o "'"
    ELSE "--profile-user " \o cmd_data.profile_info.profile_user
           \o " --profile-name " \o cmd_data.profile_info.profile_name

\* The effective tempPath of the item: /tmp when unset.
EffectiveTempPath == IF cmd_data.temp_path = None THEN "/tmp" ELSE cmd_data.temp_path[1]

ActivateTokens(temp_path) ==
    SudoToken
    \o <<cmd_data.closure \o "/activate-rs">>
    \o LogTokens
    \o <<"activate '" \o cmd_data.closure \o "'">>
    \o <<SelectorToken>>
    \o <<"--temp-path '" \o temp_path \o "'">>
    \o <<"--confirm-timeout "
          \o (IF cmd_data.confirm_timeout = None THEN "30" ELSE ToString(cmd_data.confirm_timeout[1]))>>
    \o Opt(cmd_data.magic_rollback # "Some_false", "--magic-rollback")
    \o Opt(cmd_data.auto_rollback # "Some_false", "--auto-rollback")
    \o Opt(dry_activate, "--dry-activate")
    \o Opt(boot, "--boot")

WaitTokens(temp_path) ==
    SudoToken
    \o <<cmd_data.closure \o "/activate-rs">>
    \o LogTokens
    \o <<"wait '" \o cmd_data.closure \o "'">>
    \o <<"--temp-path '" \o temp_path \o "'">>
    \o Opt(cmd_data.activation_timeout # None,
           "--activation-timeout "
             \o (IF cmd_data.activation_timeout = None THEN ""
                 ELSE ToString(cmd_data.activation_timeout[1])))

RevokeTokens ==
    SudoToken
    \o <<cmd_data.closure \o "/activate-rs">>
    \o LogTokens
    \o <<"revoke">>
    \o <<SelectorToken>>

ConfirmTokens(temp_path) ==
    SudoToken
    \o <<"rm">>
    \o <<temp_path \o "/deploy-rs-canary-_nix_store_blah_etc">>

\* C24: the activate command is the tokens [sudo prefix]
\* <closure>/activate-rs [--debug-logs] [--log-dir d] activate '<closure>'
\* <profile-selector> --temp-path '<tempPath>' --confirm-timeout n
\* [--magic-rollback] [--auto-rollback] [--dry-activate] [--boot] in this
\* order, each optional token present exactly when its flag or option is
\* set, the sudo prefix first when present.
C24_ActivateCommand ==
    Built("activate")
        => RemoteCommand("activate") = JoinSp(ActivateTokens(EffectiveTempPath))

\* The command of test_activation_command_builder (deploy.rs:85-118).
C24_Witness ==
    /\ Built("activate")
    /\ RemoteCommand("activate") =
         "sudo -u test /nix/store/blah/etc/activate-rs --debug-logs --log-dir /tmp/something.txt activate '/nix/store/blah/etc' --profile-path '/blah/profiles/test' --temp-path '/tmp' --confirm-timeout 30 --magic-rollback --auto-rollback"

\* C25: the wait command is the tokens [sudo prefix] <closure>/activate-rs
\* [--debug-logs] [--log-dir d] wait '<closure>' --temp-path '<tempPath>'
\* [--activation-timeout n]: --activation-timeout exactly when an
\* activation timeout is set and after --temp-path, and no profile
\* selector, confirm-timeout or rollback flag.
C25_WaitCommand ==
    Built("wait")
        => RemoteCommand("wait") = JoinSp(WaitTokens(EffectiveTempPath))

\* The command of test_wait_command_builder (deploy.rs:157-178).
C25_Witness ==
    /\ Built("wait")
    /\ RemoteCommand("wait") =
         "sudo -u test /nix/store/blah/etc/activate-rs --debug-logs --log-dir /tmp/something.txt wait '/nix/store/blah/etc' --temp-path '/tmp' --activation-timeout 600"

\* C26: the revoke command is the tokens [sudo prefix]
\* <closure>/activate-rs [--debug-logs] [--log-dir d] revoke
\* <profile-selector>, the selector being --profile-path '<p>' or
\* --profile-user <u> --profile-name <n>, with no closure argument and no
\* --temp-path after the subcommand.
C26_RevokeCommand ==
    Built("revoke")
        => RemoteCommand("revoke") = JoinSp(RevokeTokens)

\* The command of test_revoke_command_builder (deploy.rs:222-243).
C26_Witness ==
    /\ Built("revoke")
    /\ RemoteCommand("revoke") =
         "sudo -u test /nix/store/blah/etc/activate-rs --debug-logs --log-dir /tmp/something.txt revoke --profile-path '/nix/var/nix/per-user/user/profile'"

\* The command ssh(k) is to run for the item.
ExpectedCommand(k) ==
    CASE k = "activate" -> JoinSp(ActivateTokens(EffectiveTempPath))
      [] k = "wait"     -> JoinSp(WaitTokens(EffectiveTempPath))
      [] k = "confirm"  -> JoinSp(ConfirmTokens(EffectiveTempPath))
      [] k = "revoke"   -> JoinSp(RevokeTokens)

\* <sshUser>@<hostname>, the hostname being the CLI override when present.
ExpectedAddr ==
    cmd_data.ssh_user \o "@"
      \o (IF cmd_data.hostname_override = None THEN cmd_data.hostname
          ELSE cmd_data.hostname_override[1])

\* C27: the argv of each of the four ssh invocations of an item is the
\* address <sshUser>@<hostname> (hostname: the CLI override when present,
\* the node's otherwise), then every sshOpts entry as its own argument in
\* list order, then the remote command as the single last argument; the
\* four invocations use the same address and options.
C27_SshArgv ==
    \A k \in Kinds :
        Built(k) => argv[k] = <<ExpectedAddr>> \o cmd_data.ssh_opts \o <<ExpectedCommand(k)>>

\* All four commands of a magic-rollback item were built, with a hostname
\* override and two ssh options.
C27_Witness ==
    \A k \in Kinds :
        /\ Built(k)
        /\ Len(argv[k]) = 4
        /\ SubSeq(argv[k], 1, 3) = <<"root@10.0.0.1", "-p", "2222">>

\* C28: the confirm command is [sudo] rm <lockPath>, the lock path being
\* made of the item's closure path and of the temp path passed as
\* --temp-path to the activate and wait commands of the item, which is the
\* effective tempPath (/tmp when unset).
C28_ConfirmLockPath ==
    Built("confirm")
        => \E temp_path \in {"/tmp", "/var/tmp"} :
             /\ temp_path = EffectiveTempPath
             /\ RemoteCommand("confirm") = JoinSp(ConfirmTokens(temp_path))
             /\ Built("activate")
             /\ RemoteCommand("activate") = JoinSp(ActivateTokens(temp_path))
             /\ Built("wait")
             /\ RemoteCommand("wait") = JoinSp(WaitTokens(temp_path))

\* The confirm command of an item with tempPath /var/tmp and a sudo prefix.
C28_Witness ==
    /\ Built("confirm")
    /\ cmd_data.temp_path = Some("/var/tmp")
    /\ RemoteCommand("confirm") = "sudo -u test rm /var/tmp/deploy-rs-canary-_nix_store_blah_etc"


\* C30: the activate-done signal fires whenever the activate task ends:
\* whatever ssh(activate) exited with and whenever it did, the task sends on
\* send_activated, so the receive after confirm_profile never finds the
\* channel closed and deploy_profile never returns SSHActivateTimeout.
C30_ActivateDoneAlwaysFires ==
    \A i \in Items :
        Magic(i)
            => /\ dp_result[i] # "SSHActivateTimeout"
               /\ (thread[i] \in {"finished", "panicked"} /\ recv_activated[i])
                      => send_activated[i] = "sent"


\* run_deploy went past the question of cli.rs:667-671
Proceeded ==
    /\ interactive = TRUE
    /\ pc # "prompt"
    /\ ~(pc = "returned" /\ result.kind = "PromptDeployment")

\* the answers after which prompt_deployment asks nothing more and the
\* deployment may not go on
Refused ==
    \/ Len(answers) = 1 /\ answers[1] \in {"clear_no", "unclear"}
    \/ Len(answers) = 2 /\ answers[1] = "somewhat_yes" /\ answers[2] # "clear_yes"

NothingDone ==
    /\ built = <<>>
    /\ pushed = <<>>
    /\ succeeded = <<>>
    /\ \A i \in Items : \A k \in Kinds : child[i][k] = "none"
    /\ \A i \in Items : dp_result[i] = "none"

\* C29: with --interactive the user is asked at most twice; the deployment
\* goes on only after a clear yes, or a somewhat-yes followed by a clear
\* yes; after a clear no, an unclear answer, or a second answer that is not
\* a clear yes, run_deploy returns Cancelled and nothing has been built,
\* pushed or activated.
C29_InteractivePrompt ==
    /\ Len(answers) <= 2
    /\ Proceeded
          => \/ answers = <<"clear_yes">>
             \/ answers = <<"somewhat_yes", "clear_yes">>
    /\ (interactive = TRUE /\ Refused)
          => /\ pc = "returned"
             /\ result = Returned("PromptDeployment", 0, "Cancelled")
             /\ NothingDone

C29_Witness ==
    /\ interactive = TRUE
    /\ answers = <<"somewhat_yes", "somewhat_yes">>
    /\ result = Returned("PromptDeployment", 0, "Cancelled")

\* C31: in the magic-rollback path no one-shot channel operation fails: the
\* select never unwraps a RecvError on recv_activate, and the activate task
\* never sends on send_activate or send_activated after the receiver was
\* dropped; none of the unwraps of deploy.rs:505, 508 and 538 panics.
C31_NoChannelUnwrapPanics ==
    /\ pc # "panicked"
    /\ \A i \in Items : Magic(i) => thread[i] # "panicked"
    /\ \A i \in Items : Magic(i) => dp_result[i] # "panic"

\* C32: --dry-activate and --boot cannot be used together: with both set,
\* run stops with a failure before anything is evaluated; it never calls
\* get_deployment_data or run_deploy.
C32_DryActivateBootExclusive ==
    (dry_activate /\ boot)
        => /\ pc \in {"run", "returned"}
           /\ result.kind \in {"none"} \cup RunFailures
           /\ deploy_flakes = <<>>
           /\ to_deploy = <<>>

\* C33: in the magic-rollback path, when every SSH child that was spawned
\* eventually exits, deploy_profile eventually returns Ok or Err: it does
\* not wait forever on a channel or on the join handle, and it does not end
\* in a panic.
C33_MagicPathReturns ==
    \A i \in Items :
        Magic(i) ~> (dp_result[i] \notin {"none", "panic"})

\* the weaker statement: deploy_profile does not wait forever
C33_MagicPathEnds ==
    \A i \in Items : Magic(i) ~> (dp_result[i] # "none")

\* C34: during the rollback the revokes are issued one at a time and in
\* the order in which the items succeeded, oldest first; a revoke is
\* started only after the one before it exited with code 0.
C34_RevokeOrder ==
    /\ \A m \in 1..Len(revoked) : \A n \in 1..Len(revoked) :
         m < n
           => /\ \E a \in 1..Len(succeeded) : \E b \in 1..Len(succeeded) :
                    /\ a < b
                    /\ succeeded[a] = revoked[m]
                    /\ succeeded[b] = revoked[n]
              /\ child[revoked[m]]["revoke"] = "exit0"
              /\ rv_result[revoked[m]] = "Ok"
    /\ \A i \in DOMAIN child : \A j \in DOMAIN child :
         (child[i]["revoke"] = "running" /\ child[j]["revoke"] = "running")
            => i = j
    /\ \A i \in DOMAIN child :
         child[i]["revoke"] # "none"
            => \E n \in 1..Len(revoked) :
                 /\ revoked[n] = i
                 /\ child[i]["revoke"] = "running" => n = Len(revoked)

\* Items 1 and 2 succeeded, item 3 failed; item 1 was revoked, and the
\* revoke of item 2 is running.
C34_Witness ==
    /\ succeeded = <<1, 2>>
    /\ revoked = <<1, 2>>
    /\ child[1]["revoke"] = "exit0"
    /\ child[2]["revoke"] = "running"

ResolutionErrors == {"NodeNotFound", "ProfileNotFound", "ProfileWithoutNode"}

\* nothing of run_deploy after the resolution has happened
NothingStarted ==
    /\ to_deploy = <<>>
    /\ parts = <<>>
    /\ NoLocals
    /\ deploy_defs_sudo_password = None
    /\ built = <<>>
    /\ pushed = <<>>
    /\ succeeded = <<>>
    /\ \A i \in Items : child[i] = NoChild

\* C35: the resolution of the targets is all-or-nothing: run_deploy goes
\* past a target only if its resolution gave work items, and when the
\* resolution of a target fails run_deploy returns that error with nothing
\* collected, prompted for, built, pushed or activated, also for the targets
\* resolved before it.
C35_ResolutionAllOrNothing ==
    /\ pc \in {"resolve", "resolved"}
          => \A t \in 1..tidx : to_deploys(t, deploy_flakes[t], data).ok
    /\ (pc = "returned" /\ result.kind \in ResolutionErrors)
          => LET r == to_deploys(tidx + 1, deploy_flakes[tidx + 1], data) IN
             /\ ~r.ok
             /\ result = Returned(r.err, 0, r.arg)
             /\ \A t \in 1..tidx : to_deploys(t, deploy_flakes[t], data).ok
             /\ NothingStarted
    /\ pc = "resolved"
          => \A t \in 1..NumTargets :
                ItemsOf(t) = to_deploys(t, deploy_flakes[t], data).v

\* The first target gave work items, the second names a profilesOrder
\* entry that is no profile of the node.
C35_Witness ==
    /\ pc = "returned"
    /\ result.kind = "ProfileNotFound"
    /\ tidx = 1
    /\ Len(deploy_flakes) >= 2
    /\ deploy_flakes[2] = [node |-> Some("n1"), profile |-> None]
    /\ to_deploys(1, deploy_flakes[1], data).ok
    /\ to_deploys(1, deploy_flakes[1], data).v # <<>>
    /\ to_deploy = <<>>

\* The current item takes the sops branch of cli.rs:595 and is past the
\* existence test of cli.rs:602.
SopsBranchTaken ==
    /\ PrefixDone
    /\ dpc \notin {"secret", "try_exists"}
    /\ ~unwrap_or(merged_interactive_sudo, FALSE)
    /\ is_some(merged_sudo_file)
    /\ is_some(merged_sudo_secret)

NothingBuilt ==
    /\ built = <<>>
    /\ pushed = <<>>
    /\ succeeded = <<>>
    /\ \A i \in Items : child[i] = NoChild

\* C36: the sudo password of every work item is resolved before the build
\* of any item starts, and deploy_defs is not touched afterwards; a failure
\* of the secret resolution of an item (file not found, decryption, key not
\* found, unexpected type) makes run_deploy return the Sops error with no
\* item built, pushed or activated.
C36_SecretsBeforeBuild ==
    /\ pc = "parts" => NothingBuilt
    /\ (pc \in {"build", "push", "deploy"} \/ built # <<>>)
          => /\ parts = [i \in Items |-> i]
             /\ NoLocals
             /\ deploy_defs_sudo_password = None
    /\ result.kind = "Sops"
          => /\ pc = "returned"
             /\ Len(parts) < NumItems
             /\ NothingBuilt
    /\ (SopsBranchTaken /\ sudo_file_exists = "no")
          => FailedWith("SopsFileNotFound")
    /\ Walked
          => LET r == sops_walk(unwrap(sops_m), split(unwrap(merged_sudo_secret)), "") IN
             r.kind # "Ok" => FailedWith(r.kind)
    /\ (SopsBranchTaken /\ dpc = "done" /\ ~is_some(sops_m)
            /\ sudo_file_exists = "yes")
          => \E e \in DecryptErrors : FailedWith(e)

\* The first item is in parts; the key of the second one is not in its
\* document.
C36_Witness ==
    /\ parts = <<1>>
    /\ idx = 2
    /\ FailedWith("SopsKeyNotFound")
    /\ NothingBuilt

=============================================================================
